---- MODULE Spec2Model ----
(***************************************************************************)
(* Model of the maze demo:                                                 *)
(*   particle.js        - faces, option ids, collapseCell                  *)
(*   maze-generator.js  - generateCascade (grid, cascade, fill, collapse,  *)
(*                        neighbour repair) and findPath (BFS)             *)
(*   main.js            - the UI state machine, clicks and the click timer *)
(*   animations.js      - the update functions of the three animations     *)
(*   renderer-3d.js     - the walls of resolved cells, the ghost grid      *)
(*   unnamed/part_000   - renderChunk of the earlier renderer              *)
(* A JS Map is a record [ord, at]: ord is the insertion order of its keys  *)
(* and at maps each key to its value.  A face list is a sequence of option *)
(* ids; faceOptions is a 6-tuple indexed by face + 1.                       *)
(***************************************************************************)
EXTENDS Integers, Sequences, FiniteSets, TLC

\* ------------------------------------------------------------- bounds
\* generateCascade, whole function (Spec): grid sizes and target counts
MaxGridX == 5
MaxGridZ == 2
MaxArea == 5
MaxTarget == 4
\* Phase 3 draws: at most this many of a run's draws pick an index other than 0
MaxOddDraws == 2
\* growth phases alone (SpecGrowth): one-row grids up to MaxGrowRow wide,
\* and grids up to MaxGrowSide x MaxGrowSide
MaxGrowRow == 7
MaxGrowSide == 3
\* hand-built chunks for findPath (SpecPath): cells at 0..PathMaxX x 0..PathMaxZ
PathMaxX == 1
PathMaxZ == 1
\* two successive calls of generateCascade (SpecTwoRuns): grid sizes
MaxRerunGrid == 2
\* generateCascade on one grid with unit squares (SpecWide): the grid size and the
\* target; on a grid of more than MaxArea cells every Phase 3 draw picks index 0
WideGridX == 3
WideGridZ == 3
WideTarget == 7
\* generateCascade on the smallest grid and target that give a unit square
\* (SpecSquare), with at most SquareOddDraws Phase 3 draws picking an index other
\* than 0
SquareGridX == 3
SquareGridZ == 2
SquareTarget == 6
SquareOddDraws == 1

\* ------------------------------------------------------------- main.js constants
\* onAction: two clicks less than 300 ms apart are a double click
DOUBLE_CLICK_MS == 300
\* onAction: the single-click callback is set to run after 250 ms
SINGLE_CLICK_MS == 250

\* startExpansion, startCascade, startCollapse: the durations passed to the
\* animations, in ms
GRID_APPEAR_MS == 500
CASCADE_CELL_MS == 300
CASCADE_DELAY_MS == 80
COLLAPSE_BACK_MS == 1500

\* the sliders of the page: grid sizes up to MaxUiGridX by MaxUiGridZ
MaxUiGridX == 5
MaxUiGridZ == 1
\* draws of a run started by the page that may pick an index other than 0
MaxUiOddDraws == 0
\* the clock of the clicks advances in steps of ClickStepMs
ClickStepMs == 50
\* a frame's dt is FrameMs times 1..MaxFrameSteps
FrameMs == 250
MaxFrameSteps == 2
\* animation objects updated on their own have up to MaxAnimItems items
MaxAnimItems == 3

\* ------------------------------------------------------------- particle.js
POS_X == 0
NEG_X == 1
POS_Y == 2
NEG_Y == 3
POS_Z == 4
NEG_Z == 5

FACES == 0..5

\* faulty variant: the opposite face is taken to be the mirrored index
OPPOSITE_FACE_Mirrored(f) == 5 - f

OPPOSITE_FACE(f) ==
    CASE f = POS_X -> NEG_X
      [] f = NEG_X -> POS_X
      [] f = POS_Y -> NEG_Y
      [] f = NEG_Y -> POS_Y
      [] f = POS_Z -> NEG_Z
      [] f = NEG_Z -> POS_Z

FACE_DIRECTION(f) ==
    CASE f = POS_X -> <<1, 0, 0>>
      [] f = NEG_X -> <<0 - 1, 0, 0>>
      [] f = POS_Y -> <<0, 1, 0>>
      [] f = NEG_Y -> <<0, 0 - 1, 0>>
      [] f = POS_Z -> <<0, 0, 1>>
      [] f = NEG_Z -> <<0, 0, 0 - 1>>

OPEN_IDS == <<0, 1, 2>>
WALL_IDS == <<10, 11, 12, 13>>

ALL_IDS == OPEN_IDS \o WALL_IDS

createCell(x, y, z) ==
    [position |-> <<x, y, z>>,
     size |-> <<1, 1, 1>>,
     faceStates |-> 63,
     faceOptions |-> <<ALL_IDS, ALL_IDS, <<>>, <<>>, ALL_IDS, ALL_IDS>>]

Includes(arr, v) == \E i \in 1..Len(arr) : arr[i] = v

\* faulty variant: a face whose draw is index 0 keeps its whole list
collapseCellFalsyZero(cell, draws) ==
    [cell EXCEPT !.faceOptions =
        [i \in 1..6 |->
            IF Len(cell.faceOptions[i]) = 0 THEN <<>>
            ELSE IF draws[i] = 0 THEN cell.faceOptions[i]
            ELSE <<cell.faceOptions[i][draws[i] + 1]>>]]

\* collapseCell with the values of floor(Math.random() * opts.length) given:
\* draws[f + 1] is the index drawn for face f
collapseCell(cell, draws) ==
    [cell EXCEPT !.faceOptions =
        [i \in 1..6 |->
            IF Len(cell.faceOptions[i]) = 0 THEN <<>>
            ELSE <<cell.faceOptions[i][draws[i] + 1]>>]]

\* the draws Math.random() allows for a cell (index 0 where nothing is drawn)
DrawRange(opts) == IF Len(opts) = 0 THEN {0} ELSE 0..(Len(opts) - 1)
CellDraws(cell) ==
    {<<a, b, c, d, e, f>> :
        a \in DrawRange(cell.faceOptions[1]), b \in DrawRange(cell.faceOptions[2]),
        c \in DrawRange(cell.faceOptions[3]), d \in DrawRange(cell.faceOptions[4]),
        e \in DrawRange(cell.faceOptions[5]), f \in DrawRange(cell.faceOptions[6])}

getResolvedOption(cell, faceIndex) ==
    LET opts == cell.faceOptions[faceIndex + 1]
    IN  IF Len(opts) = 1 THEN <<opts[1]>> ELSE <<>>

\* ------------------------------------------------------------- maze-generator.js
\* faulty variant: the Z faces come first
HORIZONTAL_FACES_ZFirst == <<POS_Z, NEG_Z, POS_X, NEG_X>>
HORIZONTAL_FACES == <<POS_X, NEG_X, POS_Z, NEG_Z>>

\* faulty variant: z comes before x
posKeySwapped(x, z) == ToString(z) \o "," \o ToString(x)
posKey(x, z) == ToString(x) \o "," \o ToString(z)

Swap(a, i, j) == [a EXCEPT ![i] = a[j], ![j] = a[i]]

\* the loop of shuffle from 0-based index i down to 1, draws[i] being j
RECURSIVE shuffleFrom(_, _, _)
shuffleFrom(a, i, draws) ==
    IF i <= 0 THEN a
    ELSE shuffleFrom(Swap(a, i + 1, draws[i] + 1), i - 1, draws)

\* every result of shuffle(arr): j ranges over 0..i at step i
shuffle(arr) ==
    IF Len(arr) <= 1 THEN {arr}
    ELSE {shuffleFrom(arr, Len(arr) - 1, d) :
            d \in {e \in [1..(Len(arr) - 1) -> 0..(Len(arr) - 1)] :
                        \A i \in 1..(Len(arr) - 1) : e[i] <= i}}

createGridCell(x, z) ==
    [position |-> <<x, 0, z>>,
     size |-> <<1, 1, 1>>,
     faceStates |-> 63,
     faceOptions |-> <<WALL_IDS, WALL_IDS, <<>>, <<>>, WALL_IDS, WALL_IDS>>]

\* JS Map
EmptyFn == [k \in {} |-> 0]
EmptyMap == [ord |-> <<>>, at |-> EmptyFn]
MapHas(m, k) == k \in DOMAIN m.at
MapSet(m, k, v) ==
    IF MapHas(m, k) THEN [m EXCEPT !.at[k] = v]
    ELSE [ord |-> Append(m.ord, k), at |-> (k :> v) @@ m.at]
MapSize(m) == Len(m.ord)

Min(a, b) == IF a <= b THEN a ELSE b

VARIABLES
    gridX, gridZ, targetCells,  \* the arguments of generateCascade
    pc,                         \* position in generateCascade / findPath
    gridCells,                  \* Map key -> cell in superposition
    collapsed,                  \* Set of connected keys
    collapseOrder,              \* array of [key, fromFace]; .cell is gridCells[key]
    connections,                \* Map key -> Set of keys (never iterated)
    queue,                      \* frontier of [x, z, face, nx, nz]
    loopIdx,                    \* index of the running for-of loop (1-based)
    faceList,                   \* faces left in the fill pass's inner loop
    collapsedCells,             \* Map key -> resolved cell
    startKey, endKey, path,     \* a findPath call and what it returned
    run, firstRun,              \* which call of generateCascade runs; the first result
    currentState,               \* main.js: the UI state
    activeAnimation,            \* main.js: null or the running animation object
    cascadeData,                \* main.js: null or what generateCascade returned
    ghostMap,                   \* main.js: null or Map key -> gridPos of the ghost block
    resolvedGroups,             \* main.js: array of [gridPos, walls] per resolved cell
    pathGroup,                  \* renderer-3d.js: null or the keys of the drawn path
    sinceClick,                 \* Date.now() - lastClickTime in ms, kept up to 300
    clickTimer,                 \* null or the ms since setTimeout, kept up to 250
    lastInput,                  \* what the latest click or timer callback did
    handler,                    \* the handler that ran last
    updated,                    \* what the latest call of update(dt) returned
    chunkWalls                  \* the walls renderChunk added to its parent group

uiVars == <<currentState, activeAnimation, cascadeData, ghostMap, resolvedGroups,
            pathGroup, sinceClick, clickTimer, lastInput, handler, updated,
            chunkWalls>>

vars == <<gridX, gridZ, targetCells, pc, gridCells, collapsed, collapseOrder,
          connections, queue, loopIdx, faceList, collapsedCells,
          startKey, endKey, path, run, firstRun, uiVars>>

halfX == gridX \div 2
halfZ == gridZ \div 2
\* faulty variant: the target is not capped by the domain
targetUncapped == targetCells
target == Min(targetCells, gridX * gridZ)

inBounds(x, z) == x >= 0 - halfX /\ x <= halfX /\ z >= 0 - halfZ /\ z <= halfZ

centerKey == posKey(0, 0)

NoResult == [collapsedCells |-> EmptyMap, collapseOrder |-> <<>>]

\* null is the empty tuple; a value that may be null is held as <<value>>
null == <<>>

\* main.js after its top-level statements: the declarations at lines 36-46 and
\* 284-285, showParticle() at line 410; no click was handled and no frame drawn
ModuleLoaded ==
    /\ currentState = "PARTICLE"
    /\ activeAnimation = null
    /\ cascadeData = null
    /\ ghostMap = null
    /\ resolvedGroups = <<>>
    /\ pathGroup = null
    /\ sinceClick = DOUBLE_CLICK_MS
    /\ clickTimer = null
    /\ lastInput = "none"
    /\ handler = "load"
    /\ updated = FALSE
    /\ chunkWalls = <<>>

\* the locals of generateCascade before its first statement
Entry(gx, gz, tc) ==
    /\ gridX = gx /\ gridZ = gz /\ targetCells = tc
    /\ pc = "phase1"
    /\ gridCells = EmptyMap
    /\ collapsed = {}
    /\ collapseOrder = <<>>
    /\ connections = EmptyFn
    /\ queue = <<>>
    /\ loopIdx = 0
    /\ faceList = <<>>
    /\ collapsedCells = EmptyMap
    /\ startKey = "" /\ endKey = "" /\ path = <<>>

Init ==
    /\ \E gx \in 1..MaxGridX, gz \in 1..MaxGridZ, tc \in (0 - 1)..MaxTarget :
            gx * gz <= MaxArea /\ Entry(gx, gz, tc)
    /\ run = 1
    /\ firstRun = NoResult
    /\ ModuleLoaded

InitGrowth ==
    /\ \E gx \in 1..MaxGrowRow, gz \in 1..MaxGrowSide :
            /\ gz = 1 \/ gx <= MaxGrowSide
            /\ \E tc \in (0 - 1)..(gx * gz + 1) : Entry(gx, gz, tc)
    /\ run = 1
    /\ firstRun = NoResult
    /\ ModuleLoaded

\* ---- Phase 1: create grid (x outer, z inner)
GridWidthZ == 2 * halfZ + 1
GridCount == (2 * halfX + 1) * GridWidthZ
GridPos(i) == <<((i - 1) \div GridWidthZ) - halfX, ((i - 1) % GridWidthZ) - halfZ>>

RECURSIVE CreateGrid(_, _)
CreateGrid(m, i) ==
    IF i > GridCount THEN m
    ELSE CreateGrid(MapSet(m, posKey(GridPos(i)[1], GridPos(i)[2]),
                           createGridCell(GridPos(i)[1], GridPos(i)[2])), i + 1)

Phase1 ==
    /\ pc = "phase1"
    /\ gridCells' = CreateGrid(EmptyMap, 1)
    /\ pc' = "seed"
    /\ UNCHANGED <<gridX, gridZ, targetCells, collapsed, collapseOrder, connections,
                   queue, loopIdx, faceList, collapsedCells, startKey, endKey, path,
                   run, firstRun, uiVars>>

\* faulty variant: an edge is pushed without the inBounds test
RECURSIVE PushEdgesUnbounded(_, _, _, _, _, _)
PushEdgesUnbounded(q, x, z, faces, n, coll) ==
    IF n = 0 \/ faces = <<>> THEN q
    ELSE LET face == Head(faces)
             nx == x + FACE_DIRECTION(face)[1]
             nz == z + FACE_DIRECTION(face)[3]
         IN  PushEdgesUnbounded(IF posKey(nx, nz) \notin coll
                                THEN Append(q, [x |-> x, z |-> z, face |-> face,
                                                nx |-> nx, nz |-> nz])
                                ELSE q,
                                x, z, Tail(faces), n - 1, coll)

\* the frontier entries pushed from (x, z) for faces[i..], against the set coll
RECURSIVE PushEdges(_, _, _, _, _, _)
PushEdges(q, x, z, faces, n, coll) ==
    IF n = 0 \/ faces = <<>> THEN q
    ELSE LET face == Head(faces)
             nx == x + FACE_DIRECTION(face)[1]
             nz == z + FACE_DIRECTION(face)[3]
         IN  PushEdges(IF inBounds(nx, nz) /\ posKey(nx, nz) \notin coll
                       THEN Append(q, [x |-> x, z |-> z, face |-> face, nx |-> nx, nz |-> nz])
                       ELSE q,
                       x, z, Tail(faces), n - 1, coll)

\* ---- Phase 2: seed the origin and its frontier
Seed ==
    /\ pc = "seed"
    /\ collapsed' = {centerKey}
    /\ collapseOrder' = <<[key |-> centerKey, fromFace |-> 0 - 1]>>
    /\ connections' = (centerKey :> {})
    /\ \E centerFaces \in shuffle(HORIZONTAL_FACES) :
            queue' = PushEdges(<<>>, 0, 0, centerFaces, Len(centerFaces), {centerKey})
    /\ pc' = "cascade"
    /\ UNCHANGED <<gridX, gridZ, targetCells, gridCells, loopIdx, faceList,
                   collapsedCells, startKey, endKey, path, run, firstRun, uiVars>>

\* faulty variant: the neighbour's side of the edge is left as it was
CarveOneSide(cells, srcKey, face, nKey) ==
    [cells EXCEPT !.at[srcKey].faceOptions[face + 1] = OPEN_IDS]

\* faulty variant: face and oppFace exchanged
CarveSwappedFaces(cells, srcKey, face, nKey) ==
    LET c1 == [cells EXCEPT !.at[srcKey].faceOptions[OPPOSITE_FACE(face) + 1] = OPEN_IDS]
    IN  [c1 EXCEPT !.at[nKey].faceOptions[face + 1] = OPEN_IDS]

\* faulty variant: the two faces get every id, as in createCell
CarveAllIds(cells, srcKey, face, nKey) ==
    LET c1 == [cells EXCEPT !.at[srcKey].faceOptions[face + 1] = ALL_IDS]
    IN  [c1 EXCEPT !.at[nKey].faceOptions[OPPOSITE_FACE(face) + 1] = ALL_IDS]

\* carve the edge srcKey --face--> nKey in cells
Carve(cells, srcKey, face, nKey) ==
    LET c1 == [cells EXCEPT !.at[srcKey].faceOptions[face + 1] = OPEN_IDS]
    IN  [c1 EXCEPT !.at[nKey].faceOptions[OPPOSITE_FACE(face) + 1] = OPEN_IDS]

\* faulty variant: the second add is missing
ConnectOneWay(conn, a, b) ==
    LET c1 == IF a \in DOMAIN conn THEN conn ELSE (a :> {}) @@ conn
        c2 == IF b \in DOMAIN c1 THEN c1 ELSE (b :> {}) @@ c1
    IN  [c2 EXCEPT ![a] = @ \cup {b}]

\* connections.get(a).add(b) and connections.get(b).add(a), creating the sets
Connect(conn, a, b) ==
    LET c1 == IF a \in DOMAIN conn THEN conn ELSE (a :> {}) @@ conn
        c2 == IF b \in DOMAIN c1 THEN c1 ELSE (b :> {}) @@ c1
        c3 == [c2 EXCEPT ![a] = @ \cup {b}]
    IN  [c3 EXCEPT ![b] = @ \cup {a}]

\* faulty variant: the loop still runs when the target is reached
CascadeGuardOffByOne == Len(queue) > 0 /\ Cardinality(collapsed) <= target
\* the guard of the while loop
CascadeGuard == Len(queue) > 0 /\ Cardinality(collapsed) < target

\* faulty variant: an entry whose neighbour is already connected goes back to the
\* end of the queue
CascadeStepRequeue ==
    /\ pc = "cascade"
    /\ CascadeGuard
    /\ LET e == Head(queue)
           nKey == posKey(e.nx, e.nz)
           srcKey == posKey(e.x, e.z)
           oppFace == OPPOSITE_FACE(e.face)
       IN  IF nKey \in collapsed
           THEN /\ queue' = Append(Tail(queue), e)
                /\ UNCHANGED <<gridCells, collapsed, collapseOrder, connections>>
           ELSE /\ collapsed' = collapsed \cup {nKey}
                /\ gridCells' = Carve(gridCells, srcKey, e.face, nKey)
                /\ connections' = Connect(connections, srcKey, nKey)
                /\ collapseOrder' = Append(collapseOrder,
                                           [key |-> nKey, fromFace |-> oppFace])
                /\ \E remainingFaces \in
                            shuffle(SelectSeq(HORIZONTAL_FACES, LAMBDA f : f # oppFace)),
                      extraConnections \in 0..2 :
                      queue' = PushEdges(Tail(queue), e.nx, e.nz, remainingFaces,
                                         Min(extraConnections, Len(remainingFaces)),
                                         collapsed \cup {nKey})
    /\ UNCHANGED <<gridX, gridZ, targetCells, pc, loopIdx, faceList, collapsedCells,
                   startKey, endKey, path, run, firstRun, uiVars>>

\* faulty variant: an entry whose neighbour is already connected is carved, not discarded
CascadeStepCarveConnected ==
    /\ pc = "cascade"
    /\ CascadeGuard
    /\ LET e == Head(queue)
           nKey == posKey(e.nx, e.nz)
           srcKey == posKey(e.x, e.z)
           oppFace == OPPOSITE_FACE(e.face)
       IN  IF nKey \in collapsed
           THEN /\ queue' = Tail(queue)
                /\ gridCells' = Carve(gridCells, srcKey, e.face, nKey)
                /\ UNCHANGED <<collapsed, collapseOrder, connections>>
           ELSE /\ collapsed' = collapsed \cup {nKey}
                /\ gridCells' = Carve(gridCells, srcKey, e.face, nKey)
                /\ connections' = Connect(connections, srcKey, nKey)
                /\ collapseOrder' = Append(collapseOrder,
                                           [key |-> nKey, fromFace |-> oppFace])
                /\ \E remainingFaces \in
                            shuffle(SelectSeq(HORIZONTAL_FACES, LAMBDA f : f # oppFace)),
                      extraConnections \in 0..2 :
                      queue' = PushEdges(Tail(queue), e.nx, e.nz, remainingFaces,
                                         Min(extraConnections, Len(remainingFaces)),
                                         collapsed \cup {nKey})
    /\ UNCHANGED <<gridX, gridZ, targetCells, pc, loopIdx, faceList, collapsedCells,
                   startKey, endKey, path, run, firstRun, uiVars>>

\* one iteration of the while loop: discard the entry when its neighbour is
\* already connected (continue), else connect it and push 0-2 further edges
CascadeStep ==
    /\ pc = "cascade"
    /\ CascadeGuard
    /\ LET e == Head(queue)
           nKey == posKey(e.nx, e.nz)
           srcKey == posKey(e.x, e.z)
           oppFace == OPPOSITE_FACE(e.face)
       IN  IF nKey \in collapsed
           THEN /\ queue' = Tail(queue)
                /\ UNCHANGED <<gridCells, collapsed, collapseOrder, connections>>
           ELSE /\ collapsed' = collapsed \cup {nKey}
                /\ gridCells' = Carve(gridCells, srcKey, e.face, nKey)
                /\ connections' = Connect(connections, srcKey, nKey)
                /\ collapseOrder' = Append(collapseOrder,
                                           [key |-> nKey, fromFace |-> oppFace])
                /\ \E remainingFaces \in
                            shuffle(SelectSeq(HORIZONTAL_FACES, LAMBDA f : f # oppFace)),
                      extraConnections \in 0..2 :
                      queue' = PushEdges(Tail(queue), e.nx, e.nz, remainingFaces,
                                         Min(extraConnections, Len(remainingFaces)),
                                         collapsed \cup {nKey})
    /\ UNCHANGED <<gridX, gridZ, targetCells, pc, loopIdx, faceList, collapsedCells,
                   startKey, endKey, path, run, firstRun, uiVars>>

\* the while guard fails; line 121 decides whether the fill pass runs.
\* Nothing reads queue after the loop: the dead local is dropped here.
CascadeExit ==
    /\ pc = "cascade"
    /\ ~CascadeGuard
    /\ IF Cardinality(collapsed) < target
       THEN pc' = "fill" /\ loopIdx' = 1
       ELSE pc' = "collapse" /\ loopIdx' = 1
    /\ queue' = <<>>
    /\ UNCHANGED <<gridX, gridZ, targetCells, gridCells, collapsed, collapseOrder,
                   connections, faceList, collapsedCells, startKey, endKey,
                   path, run, firstRun, uiVars>>

\* ---- Phase 2b: fill pass, for (const [key, cell] of gridCells)
FillKey == gridCells.ord[loopIdx]

\* key not connected: continue
FillSkip ==
    /\ pc = "fill"
    /\ loopIdx <= MapSize(gridCells)
    /\ FillKey \notin collapsed
    /\ loopIdx' = loopIdx + 1
    /\ UNCHANGED <<gridX, gridZ, targetCells, pc, gridCells, collapsed, collapseOrder,
                   connections, queue, faceList, collapsedCells, startKey, endKey,
                   path, run, firstRun, uiVars>>

\* the outer loop ends: no entry is left, or break at line 124
FillExit ==
    /\ pc = "fill"
    /\ \/ loopIdx > MapSize(gridCells)
       \/ /\ loopIdx <= MapSize(gridCells)
          /\ FillKey \in collapsed
          /\ Cardinality(collapsed) >= target
    /\ pc' = "collapse"
    /\ loopIdx' = 1
    /\ UNCHANGED <<gridX, gridZ, targetCells, gridCells, collapsed, collapseOrder,
                   connections, queue, faceList, collapsedCells, startKey, endKey,
                   path, run, firstRun, uiVars>>

\* a connected cell: shuffle the faces for the inner loop
FillEnter ==
    /\ pc = "fill"
    /\ loopIdx <= MapSize(gridCells)
    /\ FillKey \in collapsed
    /\ Cardinality(collapsed) < target
    /\ \E faces \in shuffle(HORIZONTAL_FACES) : faceList' = faces
    /\ pc' = "fillFace"
    /\ UNCHANGED <<gridX, gridZ, targetCells, gridCells, collapsed, collapseOrder,
                   connections, queue, loopIdx, collapsedCells, startKey, endKey,
                   path, run, firstRun, uiVars>>

FillNeighbour ==
    LET pos == gridCells.at[FillKey].position
        dir == FACE_DIRECTION(Head(faceList))
    IN  <<pos[1] + dir[1], pos[3] + dir[3]>>

FillCanCarve ==
    /\ inBounds(FillNeighbour[1], FillNeighbour[2])
    /\ posKey(FillNeighbour[1], FillNeighbour[2]) \notin collapsed

\* the inner loop ends: no face is left, or break at line 127
FillFaceExit ==
    /\ pc = "fillFace"
    /\ faceList = <<>> \/ Cardinality(collapsed) >= target
    /\ pc' = "fill"
    /\ loopIdx' = loopIdx + 1
    /\ faceList' = <<>>
    /\ UNCHANGED <<gridX, gridZ, targetCells, gridCells, collapsed, collapseOrder,
                   connections, queue, collapsedCells, startKey, endKey, path,
                   run, firstRun, uiVars>>

\* one face of the inner loop: carve the unconnected in-domain neighbour
FillCarve ==
    /\ pc = "fillFace"
    /\ faceList # <<>>
    /\ Cardinality(collapsed) < target
    /\ FillCanCarve
    /\ LET face == Head(faceList)
           nKey == posKey(FillNeighbour[1], FillNeighbour[2])
       IN  /\ gridCells' = Carve(gridCells, FillKey, face, nKey)
           /\ collapsed' = collapsed \cup {nKey}
           /\ collapseOrder' = Append(collapseOrder,
                                      [key |-> nKey, fromFace |-> OPPOSITE_FACE(face)])
           /\ connections' = Connect(connections, FillKey, nKey)
    /\ faceList' = Tail(faceList)
    /\ UNCHANGED <<gridX, gridZ, targetCells, pc, queue, loopIdx, collapsedCells,
                   startKey, endKey, path, run, firstRun, uiVars>>

\* one face of the inner loop: nothing to carve across it
FillNoCarve ==
    /\ pc = "fillFace"
    /\ faceList # <<>>
    /\ Cardinality(collapsed) < target
    /\ ~FillCanCarve
    /\ faceList' = Tail(faceList)
    /\ UNCHANGED <<gridX, gridZ, targetCells, pc, gridCells, collapsed, collapseOrder,
                   connections, queue, loopIdx, collapsedCells, startKey, endKey,
                   path, run, firstRun, uiVars>>

\* ---- Phase 3: collapse, for (const { key, cell } of collapseOrder)
OddDraws(d) == Cardinality({i \in 1..6 : d[i] # 0})

\* draws made so far that picked an index other than 0
OddDrawsSoFar ==
    LET odd(k) == {i \in 1..6 :
                     /\ Len(gridCells.at[k].faceOptions[i]) > 0
                     /\ collapsedCells.at[k].faceOptions[i]
                            # <<gridCells.at[k].faceOptions[i][1]>>}
        RECURSIVE Sum(_)
        Sum(n) == IF n = 0 THEN 0
                  ELSE Cardinality(odd(collapsedCells.ord[n])) + Sum(n - 1)
    IN  Sum(MapSize(collapsedCells))

\* draws of a run that may pick an index other than 0
OddDrawLimit ==
    IF currentState = "GRID_APPEAR" THEN MaxUiOddDraws
    ELSE IF gridX * gridZ <= MaxArea THEN MaxOddDraws
    ELSE IF gridX * gridZ <= SquareGridX * SquareGridZ THEN SquareOddDraws
    ELSE 0

\* faulty variant: the cell is collapsed in place, the grid cell holding the result
CollapseStepInPlace ==
    /\ pc = "collapse"
    /\ loopIdx <= Len(collapseOrder)
    /\ LET key == collapseOrder[loopIdx].key
           cell == gridCells.at[key]
       IN  \E d \in CellDraws(cell) :
                /\ OddDraws(d) <= OddDrawLimit
                /\ collapsedCells' = MapSet(collapsedCells, key, collapseCell(cell, d))
                /\ gridCells' = MapSet(gridCells, key, collapseCell(cell, d))
    /\ loopIdx' = loopIdx + 1
    /\ UNCHANGED <<gridX, gridZ, targetCells, pc, collapsed, collapseOrder,
                   connections, queue, faceList, startKey, endKey, path, run, firstRun, uiVars>>

CollapseStep ==
    /\ pc = "collapse"
    /\ loopIdx <= Len(collapseOrder)
    /\ LET key == collapseOrder[loopIdx].key
           cell == gridCells.at[key]
       IN  \E d \in CellDraws(cell) :
                /\ OddDrawsSoFar + OddDraws(d) <= OddDrawLimit
                /\ collapsedCells' = MapSet(collapsedCells, key, collapseCell(cell, d))
    /\ loopIdx' = loopIdx + 1
    /\ UNCHANGED <<gridX, gridZ, targetCells, pc, gridCells, collapsed, collapseOrder,
                   connections, queue, faceList, startKey, endKey, path, run, firstRun, uiVars>>

\* ---- neighbour repair pass, for (const [key, cell] of collapsedCells)
IsOpen(opts) == Len(opts) = 1 /\ Includes(OPEN_IDS, opts[1])

\* faulty variant: the neighbour's face, not its opposite face, is overwritten
RepairVisitSameFace(cells, key, face) ==
    LET cell == cells.at[key]
        dir == FACE_DIRECTION(face)
        nKey == posKey(cell.position[1] + dir[1], cell.position[3] + dir[3])
        myOpt == cell.faceOptions[face + 1]
    IN  IF MapHas(cells, nKey) /\ IsOpen(myOpt)
        THEN [cells EXCEPT !.at[nKey].faceOptions[face + 1] = myOpt]
        ELSE cells

\* faulty variant: a resolved face is copied across whatever kind its id is
RepairVisitAnyKind(cells, key, face) ==
    LET cell == cells.at[key]
        dir == FACE_DIRECTION(face)
        nKey == posKey(cell.position[1] + dir[1], cell.position[3] + dir[3])
        myOpt == cell.faceOptions[face + 1]
    IN  IF MapHas(cells, nKey) /\ Len(myOpt) = 1
        THEN [cells EXCEPT !.at[nKey].faceOptions[OPPOSITE_FACE(face) + 1] = myOpt]
        ELSE cells

\* the body of the inner loop for one cell and one face
RepairVisit(cells, key, face) ==
    LET cell == cells.at[key]
        dir == FACE_DIRECTION(face)
        nKey == posKey(cell.position[1] + dir[1], cell.position[3] + dir[3])
        myOpt == cell.faceOptions[face + 1]
    IN  IF MapHas(cells, nKey) /\ IsOpen(myOpt)
        THEN [cells EXCEPT !.at[nKey].faceOptions[OPPOSITE_FACE(face) + 1] = myOpt]
        ELSE cells

\* the visits one after the other, each on the cells the one before has left
\* (next is bound to the value of the visit, so that it is worked out once)
RECURSIVE RepairAlong(_, _)
RepairAlong(cells, visits) ==
    IF visits = <<>> THEN cells
    ELSE CHOOSE done \in {RepairAlong(next, Tail(visits)) :
                            next \in {RepairVisit(cells, Head(visits)[1], Head(visits)[2])}} :
                TRUE

\* cells in insertion order, the faces of each in the order of HORIZONTAL_FACES
RepairOrder(cells) ==
    [n \in 1..(4 * MapSize(cells)) |->
        <<cells.ord[((n - 1) \div 4) + 1], HORIZONTAL_FACES[((n - 1) % 4) + 1]>>]

NeighborRepair(cells) == RepairAlong(cells, RepairOrder(cells))

\* the collapse loop ends; the repair pass runs and generateCascade returns
RepairAndReturn ==
    /\ pc = "collapse"
    /\ loopIdx > Len(collapseOrder)
    /\ collapsedCells' = NeighborRepair(collapsedCells)
    /\ pc' = "returned"
    /\ UNCHANGED <<gridX, gridZ, targetCells, gridCells, collapsed, collapseOrder,
                   connections, queue, loopIdx, faceList, startKey, endKey, path,
                   run, firstRun, uiVars>>

\* ---- findPath
NullPath == <<>>

Last(s) == s[Len(s)]

\* faulty variant: every resolved face is crossed, open or wall
RECURSIVE ExpandFacesAnyFace(_, _, _, _, _, _)
ExpandFacesAnyFace(cells, goal, p, i, q, visited) ==
    IF i > Len(HORIZONTAL_FACES) THEN [found |-> NullPath, q |-> q, visited |-> visited]
    ELSE LET cell == cells.at[Last(p)]
             face == HORIZONTAL_FACES[i]
             myOpt == cell.faceOptions[face + 1]
             dir == FACE_DIRECTION(face)
             nextKey == posKey(cell.position[1] + dir[1], cell.position[3] + dir[3])
         IN  IF Len(myOpt) = 1
             THEN IF nextKey = goal
                  THEN [found |-> Append(p, nextKey), q |-> q, visited |-> visited]
                  ELSE IF MapHas(cells, nextKey) /\ nextKey \notin visited
                       THEN ExpandFacesAnyFace(cells, goal, p, i + 1,
                                               Append(q, Append(p, nextKey)),
                                               visited \cup {nextKey})
                       ELSE ExpandFacesAnyFace(cells, goal, p, i + 1, q, visited)
             ELSE ExpandFacesAnyFace(cells, goal, p, i + 1, q, visited)

\* faulty variant: depth first, a neighbour is searched before the next face is looked at
RECURSIVE ExpandFacesDepthFirst(_, _, _, _, _, _)
ExpandFacesDepthFirst(cells, goal, p, i, q, visited) ==
    IF i > Len(HORIZONTAL_FACES) THEN [found |-> NullPath, q |-> q, visited |-> visited]
    ELSE LET cell == cells.at[Last(p)]
             face == HORIZONTAL_FACES[i]
             myOpt == cell.faceOptions[face + 1]
             dir == FACE_DIRECTION(face)
             nextKey == posKey(cell.position[1] + dir[1], cell.position[3] + dir[3])
         IN  IF IsOpen(myOpt)
             THEN IF nextKey = goal
                  THEN [found |-> Append(p, nextKey), q |-> q, visited |-> visited]
                  ELSE IF MapHas(cells, nextKey) /\ nextKey \notin visited
                       THEN LET r == ExpandFacesDepthFirst(cells, goal, Append(p, nextKey),
                                                           1, q, visited \cup {nextKey})
                            IN  IF r.found # NullPath THEN r
                                ELSE ExpandFacesDepthFirst(cells, goal, p, i + 1,
                                                           r.q, r.visited)
                       ELSE ExpandFacesDepthFirst(cells, goal, p, i + 1, q, visited)
             ELSE ExpandFacesDepthFirst(cells, goal, p, i + 1, q, visited)

\* faulty variant: the last face of HORIZONTAL_FACES is never looked at
RECURSIVE ExpandFacesSkipLast(_, _, _, _, _, _)
ExpandFacesSkipLast(cells, goal, p, i, q, visited) ==
    IF i >= Len(HORIZONTAL_FACES) THEN [found |-> NullPath, q |-> q, visited |-> visited]
    ELSE LET cell == cells.at[Last(p)]
             face == HORIZONTAL_FACES[i]
             myOpt == cell.faceOptions[face + 1]
             dir == FACE_DIRECTION(face)
             nextKey == posKey(cell.position[1] + dir[1], cell.position[3] + dir[3])
         IN  IF IsOpen(myOpt)
             THEN IF nextKey = goal
                  THEN [found |-> Append(p, nextKey), q |-> q, visited |-> visited]
                  ELSE IF MapHas(cells, nextKey) /\ nextKey \notin visited
                       THEN ExpandFacesSkipLast(cells, goal, p, i + 1,
                                                Append(q, Append(p, nextKey)),
                                                visited \cup {nextKey})
                       ELSE ExpandFacesSkipLast(cells, goal, p, i + 1, q, visited)
             ELSE ExpandFacesSkipLast(cells, goal, p, i + 1, q, visited)

\* the for loop over HORIZONTAL_FACES from index i, for the dequeued path p
RECURSIVE ExpandFaces(_, _, _, _, _, _)
ExpandFaces(cells, goal, p, i, q, visited) ==
    IF i > Len(HORIZONTAL_FACES) THEN [found |-> NullPath, q |-> q, visited |-> visited]
    ELSE LET cell == cells.at[Last(p)]
             face == HORIZONTAL_FACES[i]
             myOpt == cell.faceOptions[face + 1]
             dir == FACE_DIRECTION(face)
             nextKey == posKey(cell.position[1] + dir[1], cell.position[3] + dir[3])
         IN  IF IsOpen(myOpt)
             THEN IF nextKey = goal
                  THEN [found |-> Append(p, nextKey), q |-> q, visited |-> visited]
                  ELSE IF MapHas(cells, nextKey) /\ nextKey \notin visited
                       THEN ExpandFaces(cells, goal, p, i + 1,
                                        Append(q, Append(p, nextKey)),
                                        visited \cup {nextKey})
                       ELSE ExpandFaces(cells, goal, p, i + 1, q, visited)
             ELSE ExpandFaces(cells, goal, p, i + 1, q, visited)

\* the while loop
RECURSIVE SearchLoop(_, _, _, _)
SearchLoop(cells, goal, q, visited) ==
    IF Len(q) = 0 THEN NullPath
    ELSE LET r == ExpandFaces(cells, goal, Head(q), 1, Tail(q), visited)
         IN  IF r.found # NullPath THEN r.found
             ELSE SearchLoop(cells, goal, r.q, r.visited)

\* faulty variant: the equality test comes before the presence test
findPathEqualFirst(cells, s, e) ==
    IF s = e THEN <<s>>
    ELSE IF ~MapHas(cells, s) \/ ~MapHas(cells, e) THEN NullPath
    ELSE SearchLoop(cells, e, <<<<s>>>>, {s})

\* null is NullPath: a returned array is never empty
findPath(cells, s, e) ==
    IF ~MapHas(cells, s) \/ ~MapHas(cells, e) THEN NullPath
    ELSE IF s = e THEN <<s>>
    ELSE SearchLoop(cells, e, <<<<s>>>>, {s})

\* hand-built chunks: each position absent, or a cell with resolved faces
PathXs == 0..PathMaxX
PathZs == 0..PathMaxZ
PathPositions == PathXs \X PathZs
PathFaceLists == {<<OPEN_IDS[1]>>, <<WALL_IDS[1]>>}
PathCellChoices == {<<>>} \cup [1..4 -> PathFaceLists]

BuiltCell(x, z, c) ==
    [position |-> <<x, 0, z>>,
     size |-> <<1, 1, 1>>,
     faceStates |-> 63,
     faceOptions |-> <<c[1], c[2], <<>>, <<>>, c[3], c[4]>>]

RECURSIVE BuildChunk(_, _, _, _)
BuildChunk(m, choice, x, z) ==
    IF x > PathMaxX THEN m
    ELSE IF z > PathMaxZ THEN BuildChunk(m, choice, x + 1, 0)
    ELSE BuildChunk(IF choice[<<x, z>>] = <<>> THEN m
                    ELSE MapSet(m, posKey(x, z), BuiltCell(x, z, choice[<<x, z>>])),
                    choice, x, z + 1)

\* keys a caller may pass: every position of the block (present or absent)
PathKeys == {posKey(p[1], p[2]) : p \in PathPositions}

InitPath ==
    /\ gridX = 1 /\ gridZ = 1 /\ targetCells = 0
    /\ pc = "returned"
    /\ gridCells = EmptyMap
    /\ collapsed = {}
    /\ collapseOrder = <<>>
    /\ connections = EmptyFn
    /\ queue = <<>>
    /\ loopIdx = 0
    /\ faceList = <<>>
    /\ \E choice \in [PathPositions -> PathCellChoices] :
            collapsedCells = BuildChunk(EmptyMap, choice, 0, 0)
    /\ startKey = "" /\ endKey = "" /\ path = <<>>
    /\ run = 1
    /\ firstRun = NoResult
    /\ ModuleLoaded

\* faulty variant: the start cell is marked as visited by emptying its +X list
FindPathCallMarking ==
    /\ pc = "returned"
    /\ \E s \in PathKeys, e \in PathKeys :
            /\ startKey' = s
            /\ endKey' = e
            /\ path' = findPath(collapsedCells, s, e)
            /\ collapsedCells' =
                    IF MapHas(collapsedCells, s)
                    THEN [collapsedCells EXCEPT !.at[s].faceOptions[POS_X + 1] = <<>>]
                    ELSE collapsedCells
    /\ pc' = "path"
    /\ UNCHANGED <<gridX, gridZ, targetCells, gridCells, collapsed, collapseOrder,
                   connections, queue, loopIdx, faceList, run, firstRun, uiVars>>

FindPathCall ==
    /\ pc = "returned"
    /\ \E s \in PathKeys, e \in PathKeys :
            /\ startKey' = s
            /\ endKey' = e
            /\ path' = findPath(collapsedCells, s, e)
    /\ pc' = "path"
    /\ UNCHANGED <<gridX, gridZ, targetCells, gridCells, collapsed, collapseOrder,
                   connections, queue, loopIdx, faceList, collapsedCells, run, firstRun, uiVars>>

\* ---- a second call of generateCascade with the same arguments
Rerun ==
    /\ pc = "returned"
    /\ run = 1
    /\ firstRun' = [collapsedCells |-> collapsedCells, collapseOrder |-> collapseOrder]
    /\ run' = 2
    /\ pc' = "phase1"
    /\ gridCells' = EmptyMap
    /\ collapsed' = {}
    /\ collapseOrder' = <<>>
    /\ connections' = EmptyFn
    /\ queue' = <<>>
    /\ loopIdx' = 0
    /\ faceList' = <<>>
    /\ collapsedCells' = EmptyMap
    /\ UNCHANGED <<gridX, gridZ, targetCells, startKey, endKey, path, uiVars>>

InitTwoRuns ==
    /\ \E gx \in 1..MaxRerunGrid, tc \in 1..MaxRerunGrid : Entry(gx, 1, tc)
    /\ run = 1
    /\ firstRun = NoResult
    /\ ModuleLoaded

InitWide ==
    /\ Entry(WideGridX, WideGridZ, WideTarget)
    /\ run = 1
    /\ firstRun = NoResult
    /\ ModuleLoaded

InitSquare ==
    /\ Entry(SquareGridX, SquareGridZ, SquareTarget)
    /\ run = 1
    /\ firstRun = NoResult
    /\ ModuleLoaded

\* ------------------------------------------------------------- renderer-3d.js
\* Of a three.js object the model keeps what the program reads back from it: a
\* mesh is the option id it was built for, a group is its gridPos and the walls
\* added to it as [face, option].  Materials, transforms, scale and visibility
\* are not kept.

\* createWallMesh: null for an unknown id and for the open id 0, else a mesh
createWallMesh(optionId) ==
    IF ~Includes(ALL_IDS, optionId) \/ (Includes(OPEN_IDS, optionId) /\ optionId = 0)
    THEN null
    ELSE IF Includes(WALL_IDS, optionId) \/ optionId = 1 \/ optionId = 2
    THEN <<[option |-> optionId]>>
    ELSE null

\* the key of the cell across face fi, as the template string at line 208
neighborKey(cell, fi) ==
    posKey(cell.position[1] + FACE_DIRECTION(fi)[1],
           cell.position[3] + FACE_DIRECTION(fi)[3])

\* faulty variant: a face toward a resolved neighbour is skipped on both sides
SkipsFaceBothSides(cell, fi, allCollapsed) == neighborKey(cell, fi) \in allCollapsed

\* line 209: the face is left to the neighbour
SkipsFace(cell, fi, allCollapsed) ==
    neighborKey(cell, fi) \in allCollapsed /\ fi > OPPOSITE_FACE(fi)

\* the walls loop of renderResolvedCell over the faces from index i on
RECURSIVE CellWalls(_, _, _)
CellWalls(cell, allCollapsed, i) ==
    IF i > Len(HORIZONTAL_FACES) THEN <<>>
    ELSE LET fi == HORIZONTAL_FACES[i]
             optionId == getResolvedOption(cell, fi)
             rest == CellWalls(cell, allCollapsed, i + 1)
         IN  IF optionId = <<>> THEN rest
             ELSE IF SkipsFace(cell, fi, allCollapsed) THEN rest
             ELSE IF createWallMesh(optionId[1]) = null THEN rest
             ELSE <<[face |-> fi, option |-> optionId[1]]>> \o rest

renderResolvedCell(cell, allCollapsed) ==
    [gridPos |-> <<cell.position[1], cell.position[3]>>,
     walls |-> CellWalls(cell, allCollapsed, 1)]

buildResolvedCell(cell, allCollapsedKeys) == renderResolvedCell(cell, allCollapsedKeys)

\* buildGhostGrid: a ghost block for every grid cell but the centre, in Map order
RECURSIVE GhostsFrom(_, _, _, _)
GhostsFrom(cells, ctr, m, i) ==
    IF i > MapSize(cells) THEN m
    ELSE LET key == cells.ord[i]
             pos == cells.at[key].position
         IN  GhostsFrom(cells, ctr,
                        IF key = ctr THEN m ELSE MapSet(m, key, <<pos[1], pos[3]>>),
                        i + 1)

buildGhostGrid(cells, ctr) == GhostsFrom(cells, ctr, EmptyMap, 1)

\* renderPath: clearPath first; a path of fewer than two keys draws nothing
renderPath(p) == IF Len(p) < 2 THEN null ELSE <<p>>

\* ---- the chunk renderer of src/unnamed/part_000
posKey3(x, y, z) == ToString(x) \o "," \o ToString(y) \o "," \o ToString(z)

faceKeyOf(k, fi) == k \o ":" \o ToString(fi)

\* the walls loop of renderChunk for one cell, over the faces from index i on;
\* acc is [walls, renderedFaces]
RECURSIVE ChunkCellWalls(_, _, _)
ChunkCellWalls(cell, acc, i) ==
    IF i > Len(HORIZONTAL_FACES) THEN acc
    ELSE LET fi == HORIZONTAL_FACES[i]
             optionId == getResolvedOption(cell, fi)
             pos == cell.position
             d == FACE_DIRECTION(fi)
             faceKey == faceKeyOf(posKey3(pos[1], pos[2], pos[3]), fi)
             oppFaceKey == faceKeyOf(posKey3(pos[1] + d[1], pos[2], pos[3] + d[3]),
                                     OPPOSITE_FACE(fi))
         IN  IF optionId = <<>> THEN ChunkCellWalls(cell, acc, i + 1)
             ELSE IF oppFaceKey \in acc.renderedFaces
             THEN ChunkCellWalls(cell, acc, i + 1)
             ELSE ChunkCellWalls(cell,
                    [walls |-> IF createWallMesh(optionId[1]) = null THEN acc.walls
                               ELSE Append(acc.walls,
                                           [gridPosition |-> pos, face |-> fi,
                                            option |-> optionId[1]]),
                     renderedFaces |-> acc.renderedFaces \cup {faceKey}],
                    i + 1)

\* the cell loop of renderChunk from cell n on
RECURSIVE ChunkWallsFrom(_, _, _)
ChunkWallsFrom(cells, acc, n) ==
    IF n > Len(cells) THEN acc
    ELSE ChunkWallsFrom(cells, ChunkCellWalls(cells[n], acc, 1), n + 1)

\* renderChunk: the walls of the parent group, in the order they were added
renderChunk(cells) ==
    ChunkWallsFrom(cells, [walls |-> <<>>, renderedFaces |-> {}], 1).walls

\* ------------------------------------------------------------- animations.js
\* Times are in milliseconds.  An animation object is its closure: the items,
\* elapsed and done.  What update writes to the three.js objects is not kept.
Abs(n) == IF n < 0 THEN 0 - n ELSE n

\* delay = dist * 0.06 s
GHOST_DELAY_MS == 60

createGridAppearAnimation(ghosts, duration) ==
    [kind |-> "gridAppear",
     items |-> [i \in 1..MapSize(ghosts) |->
                    LET g == ghosts.at[ghosts.ord[i]]
                    IN  [delay |-> (Abs(g[1]) + Abs(g[2])) * GHOST_DELAY_MS]],
     duration |-> duration,
     elapsed |-> 0,
     done |-> FALSE]

\* every item has t = 1, that is (elapsed - delay) / duration >= 1
GridAppearUpdate(a, dt) ==
    LET e == a.elapsed + dt
        allDone == \A i \in 1..Len(a.items) : e - a.items[i].delay >= a.duration
    IN  [a EXCEPT !.elapsed = e, !.done = allDone]

createCascadeAnimation(order, cellDuration, cellDelay) ==
    [kind |-> "cascade",
     items |-> [i \in 1..Len(order) |->
                    [key |-> order[i].key,
                     startTime |-> (i - 1) * cellDelay,
                     started |-> FALSE,
                     finished |-> FALSE]],
     duration |-> cellDuration,
     elapsed |-> 0,
     done |-> FALSE]

CascadeItemUpdate(item, e, cellDuration) ==
    IF item.finished THEN item
    ELSE IF e < item.startTime THEN item
    ELSE [item EXCEPT !.started = TRUE,
                      !.finished = (e - item.startTime >= cellDuration)]

CascadeUpdate(a, dt) ==
    LET e == a.elapsed + dt
        items == [i \in 1..Len(a.items) |-> CascadeItemUpdate(a.items[i], e, a.duration)]
        allDone == \A i \in 1..Len(items) : items[i].finished
    IN  [a EXCEPT !.elapsed = e, !.items = items, !.done = allDone]

createCollapseBackAnimation(groups, ghosts, duration) ==
    [kind |-> "collapseBack",
     items |-> [i \in 1..Len(groups) |-> [gridPos |-> groups[i].gridPos]],
     duration |-> duration,
     elapsed |-> 0,
     done |-> FALSE]

\* faulty variant: elapsed is not advanced
CollapseBackUpdateFrozen(a, dt) ==
    LET e == a.elapsed
        phase1Duration == a.duration \div 2
        phase2Duration == a.duration \div 2
    IN  [a EXCEPT !.elapsed = e,
                  !.done = IF e < phase1Duration THEN a.done
                           ELSE (e - phase1Duration) * 10 >= 12 * phase2Duration]

\* phase 1 lasts duration * 0.5; in phase 2, p2t = (elapsed - phase1Duration) /
\* phase2Duration and done is set when p2t >= 1.2
CollapseBackUpdate(a, dt) ==
    LET e == a.elapsed + dt
        phase1Duration == a.duration \div 2
        phase2Duration == a.duration \div 2
    IN  [a EXCEPT !.elapsed = e,
                  !.done = IF e < phase1Duration THEN a.done
                           ELSE (e - phase1Duration) * 10 >= 12 * phase2Duration]

\* update(dt) of an animation object: the object after the call; the call
\* returns its done
update(a, dt) ==
    IF a.done THEN a
    ELSE CASE a.kind = "gridAppear" -> GridAppearUpdate(a, dt)
           [] a.kind = "cascade" -> CascadeUpdate(a, dt)
           [] a.kind = "collapseBack" -> CollapseBackUpdate(a, dt)

\* ------------------------------------------------------------- main.js
\* A handler runs to completion before the next one starts.  generateCascade,
\* called by startExpansion, is the run of its own actions from "phase1" to
\* "returned"; pc = "idle" says that no handler is running, and only then can a
\* click, a timer callback, a frame or the clock take a step.

\* no call of generateCascade is on the stack
IdleLocals ==
    /\ gridX = 1 /\ gridZ = 1 /\ targetCells = 1
    /\ pc = "idle"
    /\ gridCells = EmptyMap
    /\ collapsed = {}
    /\ collapseOrder = <<>>
    /\ connections = EmptyFn
    /\ queue = <<>>
    /\ loopIdx = 0
    /\ faceList = <<>>
    /\ collapsedCells = EmptyMap
    /\ startKey = "" /\ endKey = "" /\ path = <<>>
    /\ run = 1
    /\ firstRun = NoResult

\* the page after main.js has run its top-level statements
InitUI == IdleLocals /\ ModuleLoaded

\* getParams: the values of the three sliders; clampCells keeps the cell count
\* within the grid capacity
getParams ==
    {p \in (1..MaxUiGridX) \X (1..MaxUiGridZ) \X (1..(MaxUiGridX * MaxUiGridZ)) :
        p[3] <= p[1] * p[2]}

\* startExpansion, lines 172-178: the state is set and generateCascade is called
startExpansion ==
    /\ currentState' = "GRID_APPEAR"
    /\ \E p \in getParams :
            /\ gridX' = p[1] /\ gridZ' = p[2] /\ targetCells' = p[3]
    /\ pc' = "phase1"
    /\ UNCHANGED <<gridCells, collapsed, collapseOrder, connections, queue, loopIdx,
                   faceList, collapsedCells, startKey, endKey, path, run, firstRun,
                   activeAnimation, cascadeData, ghostMap, resolvedGroups, pathGroup>>

\* startExpansion, lines 178-202: generateCascade has returned
ExpansionReturn ==
    /\ pc = "returned"
    /\ currentState = "GRID_APPEAR"
    /\ cascadeData' = <<[gridCells |-> gridCells,
                         collapseOrder |-> collapseOrder,
                         collapsedCells |-> collapsedCells]>>
    /\ ghostMap' = <<buildGhostGrid(gridCells, "0,0")>>
    /\ activeAnimation' = <<createGridAppearAnimation(ghostMap'[1], GRID_APPEAR_MS)>>
    /\ pathGroup' = null
    /\ gridX' = 1 /\ gridZ' = 1 /\ targetCells' = 1
    /\ pc' = "idle"
    /\ gridCells' = EmptyMap
    /\ collapsed' = {}
    /\ collapseOrder' = <<>>
    /\ connections' = EmptyFn
    /\ queue' = <<>>
    /\ loopIdx' = 0
    /\ faceList' = <<>>
    /\ collapsedCells' = EmptyMap
    /\ UNCHANGED <<startKey, endKey, path, run, firstRun, currentState, resolvedGroups,
                   sinceClick, clickTimer, lastInput, handler, updated, chunkWalls>>

\* the loop of startCascade, lines 210-226, from entry i of collapseOrder on
RECURSIVE ResolvedFrom(_, _, _)
ResolvedFrom(data, allCollapsedKeys, i) ==
    IF i > Len(data.collapseOrder) THEN <<>>
    ELSE LET key == data.collapseOrder[i].key
             rest == ResolvedFrom(data, allCollapsedKeys, i + 1)
         IN  IF ~MapHas(data.collapsedCells, key) THEN rest
             ELSE <<[key |-> key,
                     group |-> buildResolvedCell(data.collapsedCells.at[key],
                                                  allCollapsedKeys)]>> \o rest

startCascade ==
    LET animOrder == ResolvedFrom(cascadeData[1],
                                  DOMAIN cascadeData[1].collapsedCells.at, 1)
    IN  /\ currentState' = "CASCADING"
        /\ resolvedGroups' = [i \in 1..Len(animOrder) |-> animOrder[i].group]
        /\ activeAnimation' =
                <<createCascadeAnimation(animOrder, CASCADE_CELL_MS, CASCADE_DELAY_MS)>>
        /\ UNCHANGED <<cascadeData, ghostMap>>

startCollapse ==
    /\ currentState' = "COLLAPSING"
    /\ pathGroup' = null
    /\ activeAnimation' =
            <<createCollapseBackAnimation(resolvedGroups, ghostMap[1], COLLAPSE_BACK_MS)>>
    /\ UNCHANGED <<gridX, gridZ, targetCells, pc, gridCells, collapsed, collapseOrder,
                   connections, queue, loopIdx, faceList, collapsedCells, startKey,
                   endKey, path, run, firstRun, cascadeData, ghostMap, resolvedGroups>>

\* faulty variant: cleanup leaves cascadeData as it is
showParticleKeepsData ==
    /\ resolvedGroups' = <<>>
    /\ ghostMap' = null
    /\ cascadeData' = cascadeData
    /\ activeAnimation' = null
    /\ currentState' = "PARTICLE"

\* showParticle: cleanup, then the state is set
showParticle ==
    /\ resolvedGroups' = <<>>
    /\ ghostMap' = null
    /\ cascadeData' = null
    /\ activeAnimation' = null
    /\ currentState' = "PARTICLE"

\* faulty variant: a double click outside PARTICLE always starts the collapse
onActionAnyState ==
    /\ pc = "idle"
    /\ sinceClick' = 0
    /\ handler' = "click"
    /\ UNCHANGED <<updated, chunkWalls>>
    /\ IF sinceClick < DOUBLE_CLICK_MS
       THEN /\ clickTimer' = null
            /\ lastInput' = "double"
            /\ IF currentState = "PARTICLE" THEN startExpansion
               ELSE startCollapse
       ELSE /\ clickTimer' = <<0>>
            /\ lastInput' = "single"
            /\ UNCHANGED <<gridX, gridZ, targetCells, pc, gridCells, collapsed,
                           collapseOrder, connections, queue, loopIdx, faceList,
                           collapsedCells, startKey, endKey, path, run, firstRun,
                           currentState, activeAnimation, cascadeData, ghostMap,
                           resolvedGroups, pathGroup>>

\* onAction: a click or a touch on the canvas
onAction ==
    /\ pc = "idle"
    /\ sinceClick' = 0
    /\ handler' = "click"
    /\ UNCHANGED <<updated, chunkWalls>>
    /\ IF sinceClick < DOUBLE_CLICK_MS
       THEN /\ clickTimer' = null
            /\ lastInput' = "double"
            /\ IF currentState = "PARTICLE" THEN startExpansion
               ELSE IF currentState = "SPACE" THEN startCollapse
               ELSE UNCHANGED <<gridX, gridZ, targetCells, pc, gridCells, collapsed,
                                collapseOrder, connections, queue, loopIdx, faceList,
                                collapsedCells, startKey, endKey, path, run, firstRun,
                                currentState, activeAnimation, cascadeData, ghostMap,
                                resolvedGroups, pathGroup>>
       ELSE /\ clickTimer' = <<0>>
            /\ lastInput' = "single"
            /\ UNCHANGED <<gridX, gridZ, targetCells, pc, gridCells, collapsed,
                           collapseOrder, connections, queue, loopIdx, faceList,
                           collapsedCells, startKey, endKey, path, run, firstRun,
                           currentState, activeAnimation, cascadeData, ghostMap,
                           resolvedGroups, pathGroup>>

\* handleNavigation: the ray hits one of the resolved groups or nothing
handleNavigation ==
    \E hit \in {0} \cup (1..Len(resolvedGroups)) :
        IF hit = 0 \/ cascadeData = null THEN pathGroup' = pathGroup
        ELSE LET g == resolvedGroups[hit].gridPos
                 targetKey == posKey(g[1], g[2])
                 found == findPath(cascadeData[1].collapsedCells, "0,0", targetKey)
             IN  IF found = NullPath THEN pathGroup' = pathGroup
                 ELSE pathGroup' = renderPath(found)

\* faulty variant: the callback does not look at the state
clickTimerCallbackAnyState ==
    /\ pc = "idle"
    /\ clickTimer # null
    /\ clickTimer[1] >= SINGLE_CLICK_MS
    /\ handleNavigation /\ lastInput' = "navigation"
    /\ clickTimer' = null
    /\ handler' = "timer"
    /\ UNCHANGED <<gridX, gridZ, targetCells, pc, gridCells, collapsed, collapseOrder,
                   connections, queue, loopIdx, faceList, collapsedCells, startKey,
                   endKey, path, run, firstRun, currentState, activeAnimation,
                   cascadeData, ghostMap, resolvedGroups, sinceClick, updated,
                   chunkWalls>>

\* the callback given to setTimeout at lines 316-320, run 250 ms or more after
\* the click that set it
clickTimerCallback ==
    /\ pc = "idle"
    /\ clickTimer # null
    /\ clickTimer[1] >= SINGLE_CLICK_MS
    /\ IF currentState = "SPACE"
       THEN handleNavigation /\ lastInput' = "navigation"
       ELSE pathGroup' = pathGroup /\ lastInput' = "expired"
    /\ clickTimer' = null
    /\ handler' = "timer"
    /\ UNCHANGED <<gridX, gridZ, targetCells, pc, gridCells, collapsed, collapseOrder,
                   connections, queue, loopIdx, faceList, collapsedCells, startKey,
                   endKey, path, run, firstRun, currentState, activeAnimation,
                   cascadeData, ghostMap, resolvedGroups, sinceClick, updated,
                   chunkWalls>>

\* time passes between two handlers: Date.now() and the timer's clock advance
ClockStep ==
    /\ pc = "idle"
    /\ sinceClick' = Min(sinceClick + ClickStepMs, DOUBLE_CLICK_MS)
    /\ clickTimer' = IF clickTimer = null THEN null
                     ELSE <<Min(clickTimer[1] + ClickStepMs, SINGLE_CLICK_MS)>>
    /\ UNCHANGED <<gridX, gridZ, targetCells, pc, gridCells, collapsed, collapseOrder,
                   connections, queue, loopIdx, faceList, collapsedCells, startKey,
                   endKey, path, run, firstRun, currentState, activeAnimation,
                   cascadeData, ghostMap, resolvedGroups, pathGroup, lastInput,
                   handler, updated, chunkWalls>>

\* the dt of a frame
FrameDts == {FrameMs * k : k \in 1..MaxFrameSteps}

\* animate: one frame
animate ==
    /\ pc = "idle"
    /\ handler' = "frame"
    /\ \E dt \in FrameDts :
        IF currentState \in {"GRID_APPEAR", "CASCADING", "COLLAPSING"}
           /\ activeAnimation # null
        THEN LET a == update(activeAnimation[1], dt)
             IN  /\ updated' = a.done
                 /\ IF ~a.done
                    THEN /\ activeAnimation' = <<a>>
                         /\ UNCHANGED <<currentState, cascadeData, ghostMap,
                                        resolvedGroups>>
                    ELSE CASE currentState = "GRID_APPEAR" -> startCascade
                           [] currentState = "CASCADING" ->
                                /\ currentState' = "SPACE"
                                /\ activeAnimation' = null
                                /\ UNCHANGED <<cascadeData, ghostMap, resolvedGroups>>
                           [] currentState = "COLLAPSING" -> showParticle
        ELSE UNCHANGED <<currentState, activeAnimation, cascadeData, ghostMap,
                         resolvedGroups, updated>>
    /\ UNCHANGED <<gridX, gridZ, targetCells, pc, gridCells, collapsed, collapseOrder,
                   connections, queue, loopIdx, faceList, collapsedCells, startKey,
                   endKey, path, run, firstRun, pathGroup, sinceClick, clickTimer,
                   lastInput, chunkWalls>>

\* ---- animation objects updated on their own
\* the defaults of createGridAppearAnimation and createCascadeAnimation
GRID_APPEAR_DEFAULT_MS == 800
CASCADE_CELL_DEFAULT_MS == 400

\* a ghostMap of n ghosts at distances 1..n, an order and an array of n groups
GhostRow(n) ==
    [ord |-> [i \in 1..n |-> posKey(i, 0)],
     at |-> [k \in {posKey(i, 0) : i \in 1..n} |->
                CHOOSE g \in {<<i, 0>> : i \in 1..n} : posKey(g[1], g[2]) = k]]
OrderRow(n) == [i \in 1..n |-> [key |-> posKey(i - 1, 0)]]
GroupRow(n) == [i \in 1..n |-> [gridPos |-> <<i - 1, 0>>, walls |-> <<>>]]

AnimObjects ==
    UNION {{createGridAppearAnimation(GhostRow(n), GRID_APPEAR_MS),
            createGridAppearAnimation(GhostRow(n), GRID_APPEAR_DEFAULT_MS),
            createCascadeAnimation(OrderRow(n), CASCADE_CELL_MS, CASCADE_DELAY_MS),
            createCascadeAnimation(OrderRow(n), CASCADE_CELL_DEFAULT_MS,
                                   CASCADE_DELAY_MS),
            createCollapseBackAnimation(GroupRow(n), GhostRow(n), COLLAPSE_BACK_MS)} :
           n \in 0..MaxAnimItems}

\* an animation object was created and nothing else happens to the page
InitAnim ==
    /\ gridX = 1 /\ gridZ = 1 /\ targetCells = 1
    /\ pc = "anim"
    /\ gridCells = EmptyMap
    /\ collapsed = {}
    /\ collapseOrder = <<>>
    /\ connections = EmptyFn
    /\ queue = <<>>
    /\ loopIdx = 0
    /\ faceList = <<>>
    /\ collapsedCells = EmptyMap
    /\ startKey = "" /\ endKey = "" /\ path = <<>>
    /\ run = 1
    /\ firstRun = NoResult
    /\ currentState = "PARTICLE"
    /\ \E a \in AnimObjects : activeAnimation = <<a>>
    /\ cascadeData = null
    /\ ghostMap = null
    /\ resolvedGroups = <<>>
    /\ pathGroup = null
    /\ sinceClick = DOUBLE_CLICK_MS
    /\ clickTimer = null
    /\ lastInput = "none"
    /\ handler = "load"
    /\ updated = FALSE
    /\ chunkWalls = <<>>

\* one more call of update(dt) on the object
UpdateCall ==
    /\ pc = "anim"
    /\ \E dt \in FrameDts :
            /\ activeAnimation' = <<update(activeAnimation[1], dt)>>
            /\ updated' = activeAnimation'[1].done
    /\ UNCHANGED <<gridX, gridZ, targetCells, pc, gridCells, collapsed, collapseOrder,
                   connections, queue, loopIdx, faceList, collapsedCells, startKey,
                   endKey, path, run, firstRun, currentState, cascadeData, ghostMap,
                   resolvedGroups, pathGroup, sinceClick, clickTimer, lastInput,
                   handler, chunkWalls>>

\* ---- a returned chunk handed to the renderers
\* the loop of startCascade over what generateCascade returned
RenderResolvedCells ==
    /\ pc = "returned"
    /\ LET data == [collapseOrder |-> collapseOrder, collapsedCells |-> collapsedCells]
           animOrder == ResolvedFrom(data, DOMAIN collapsedCells.at, 1)
       IN  resolvedGroups' = [i \in 1..Len(animOrder) |-> animOrder[i].group]
    /\ pc' = "resolved"
    /\ UNCHANGED <<gridX, gridZ, targetCells, gridCells, collapsed, collapseOrder,
                   connections, queue, loopIdx, faceList, collapsedCells, startKey,
                   endKey, path, run, firstRun, currentState, activeAnimation,
                   cascadeData, ghostMap, pathGroup, sinceClick, clickTimer, lastInput,
                   handler, updated, chunkWalls>>

\* renderChunk of part_000 on the resolved cells, in the order of the Map
RenderChunkCall ==
    /\ pc = "returned"
    /\ chunkWalls' = renderChunk([i \in 1..MapSize(collapsedCells) |->
                                    collapsedCells.at[collapsedCells.ord[i]]])
    /\ pc' = "chunk"
    /\ UNCHANGED <<gridX, gridZ, targetCells, gridCells, collapsed, collapseOrder,
                   connections, queue, loopIdx, faceList, collapsedCells, startKey,
                   endKey, path, run, firstRun, currentState, activeAnimation,
                   cascadeData, ghostMap, resolvedGroups, pathGroup, sinceClick,
                   clickTimer, lastInput, handler, updated>>

\* ---- specifications
NextGrowth ==
    \/ Phase1 \/ Seed
    \/ CascadeStep \/ CascadeExit
    \/ FillSkip \/ FillEnter \/ FillCarve \/ FillNoCarve \/ FillFaceExit \/ FillExit

Next ==
    \/ Phase1 \/ Seed
    \/ CascadeStep \/ CascadeExit
    \/ FillSkip \/ FillEnter \/ FillCarve \/ FillNoCarve \/ FillFaceExit \/ FillExit
    \/ CollapseStep \/ RepairAndReturn

\* InitTwoRuns has one-row grids of at most three cells, where the cascade always
\* reaches the target: the fill pass never starts, and its actions are left out
NextTwoRuns ==
    \/ Phase1 \/ Seed
    \/ CascadeStep \/ CascadeExit
    \/ CollapseStep \/ RepairAndReturn
    \/ Rerun

NextPath == FindPathCall

\* generateCascade from call to return
Spec == Init /\ [][Next]_vars
\* the growth phases (1, 2, 2b) on larger grids, up to the start of Phase 3
SpecGrowth == InitGrowth /\ [][NextGrowth]_vars
\* generateCascade called twice with the same arguments
SpecTwoRuns == InitTwoRuns /\ [][NextTwoRuns]_vars
\* generateCascade from call to return on the grid of InitWide
SpecWide == InitWide /\ [][Next]_vars
\* generateCascade from call to return on the grid of InitSquare
SpecSquare == InitSquare /\ [][Next]_vars
\* generateCascade from call to return on the grids of Init and of InitWide; the
\* function runs on one thread without waiting, so a step that can be taken is taken
SpecLive == (Init \/ InitWide) /\ [][Next]_vars /\ WF_vars(Next)
\* findPath on hand-built chunks
SpecPath == InitPath /\ [][NextPath]_vars

\* generateCascade on the grid of InitSquare, then one of the two renderers
NextRender == Next \/ RenderResolvedCells \/ RenderChunkCall
SpecRender == InitSquare /\ [][NextRender]_vars

\* the page: clicks, timer callbacks, frames and the clock in any order
NextUI ==
    \/ onAction \/ clickTimerCallback \/ animate \/ ClockStep
    \/ ExpansionReturn
    \/ Next
SpecUI == InitUI /\ [][NextUI]_vars

\* the page, and animation objects updated on their own.  requestAnimationFrame
\* (line 382) schedules animate again on every frame, and update is called
\* repeatedly: a frame that can be drawn is drawn.  A handler runs to its end, so
\* the steps of generateCascade inside startExpansion are taken.  Nothing makes
\* the user click.
NextUILive == NextUI \/ UpdateCall
SpecUILive ==
    /\ InitUI \/ InitAnim
    /\ [][NextUILive]_vars
    /\ WF_vars(animate)
    /\ WF_vars(UpdateCall)
    /\ WF_vars(Next \/ ExpansionReturn)

\* ------------------------------------------------------------- properties
\* The properties read the cells with their own operators, not with the model's.
HFaceSet == {POS_X, NEG_X, POS_Z, NEG_Z}
Keys(cells) == DOMAIN cells.at
OpenIdSet == {OPEN_IDS[i] : i \in 1..Len(OPEN_IDS)}
\* face f of the cell is resolved to an open id
OpenFace(cell, f) ==
    /\ Len(cell.faceOptions[f + 1]) = 1
    /\ cell.faceOptions[f + 1][1] \in OpenIdSet
\* the key of the position across face f of the cell
Across(cell, f) ==
    posKey(cell.position[1] + FACE_DIRECTION(f)[1], cell.position[3] + FACE_DIRECTION(f)[3])
\* the cells of the chunk one step across an open face of cell k
OpenNeighbours(cells, k) ==
    {Across(cells.at[k], f) : f \in {g \in HFaceSet : OpenFace(cells.at[k], g)}}
        \cap Keys(cells)
\* the cells reachable from the set S by steps across open faces
RECURSIVE OpenClosure(_, _)
OpenClosure(cells, S) ==
    LET T == S \cup UNION {OpenNeighbours(cells, k) : k \in S}
    IN  IF T = S THEN S ELSE OpenClosure(cells, T)
\* the least number of steps across open faces from S to goal, n steps being
\* behind; none: 0 - 1
RECURSIVE OpenDistance(_, _, _, _)
OpenDistance(cells, S, goal, n) ==
    IF goal \in S THEN n
    ELSE LET T == S \cup UNION {OpenNeighbours(cells, k) : k \in S}
         IN  IF T = S THEN 0 - 1 ELSE OpenDistance(cells, T, goal, n + 1)
Max(a, b) == IF a >= b THEN a ELSE b
\* the target as line 50 states it
TargetCount == IF targetCells <= gridX * gridZ THEN targetCells ELSE gridX * gridZ

\* C1: in the collapsedCells that generateCascade returns, every cell is reachable
\* from the origin cell "0,0" by steps that each cross a horizontal face resolved to
\* an open id on the cell being left.
C1_Connectivity ==
    pc = "returned" => Keys(collapsedCells) \subseteq OpenClosure(collapsedCells, {centerKey})
\* a returned chunk with a cell that is not a direct neighbour of the origin
C1_Witness ==
    /\ pc = "returned"
    /\ \E k \in Keys(collapsedCells) :
            k # centerKey /\ k \notin OpenNeighbours(collapsedCells, centerKey)

\* C2: in the returned collapsedCells, for all grid-adjacent present cells A and B,
\* if A's face toward B is resolved to an open id then B's opposite face is resolved
\* to the identical id.
C2_Symmetry ==
    pc = "returned" =>
        \A k \in Keys(collapsedCells), f \in HFaceSet :
            LET a == collapsedCells.at[k]
            IN  (Across(a, f) \in Keys(collapsedCells) /\ OpenFace(a, f)) =>
                    collapsedCells.at[Across(a, f)].faceOptions[OPPOSITE_FACE(f) + 1]
                        = a.faceOptions[f + 1]
\* a returned chunk with an edge open on both sides with an id that a draw other
\* than the first produced
C2_Witness ==
    /\ pc = "returned"
    /\ \E k \in Keys(collapsedCells), f \in HFaceSet :
            LET a == collapsedCells.at[k]
            IN  /\ Across(a, f) \in Keys(collapsedCells)
                /\ OpenFace(a, f)
                /\ a.faceOptions[f + 1][1] # OPEN_IDS[1]
                /\ collapsedCells.at[Across(a, f)].faceOptions[OPPOSITE_FACE(f) + 1]
                        = a.faceOptions[f + 1]

NoDuplicates(seq) == \A i, j \in 1..Len(seq) : seq[i] = seq[j] => i = j

\* C3: a non-null path returned by findPath starts with startKey, ends with endKey,
\* holds only keys of collapsedCells, holds no key twice, and each consecutive pair
\* is a step across a face resolved to an open id on the earlier cell.
C3_PathWellFormed ==
    (pc = "path" /\ path # NullPath) =>
        /\ path[1] = startKey
        /\ path[Len(path)] = endKey
        /\ \A i \in 1..Len(path) : path[i] \in Keys(collapsedCells)
        /\ NoDuplicates(path)
        /\ \A i \in 1..(Len(path) - 1) :
                \E f \in HFaceSet :
                    /\ OpenFace(collapsedCells.at[path[i]], f)
                    /\ Across(collapsedCells.at[path[i]], f) = path[i + 1]
\* a returned path of four keys
C3_Witness == pc = "path" /\ Len(path) = 4

\* C4: a non-null path returned by findPath has the least number of edges of all
\* paths over open faces from startKey to endKey.
C4_ShortestPath ==
    (pc = "path" /\ path # NullPath) =>
        Len(path) - 1 = OpenDistance(collapsedCells, {startKey}, endKey, 0)
\* the direct step across +Z is returned although a route of three edges starts
\* across +X, the face looked at first
C4_Witness ==
    /\ pc = "path"
    /\ Len(path) = 2
    /\ startKey \in Keys(collapsedCells)
    /\ endKey = Across(collapsedCells.at[startKey], POS_Z)
    /\ LET k == Across(collapsedCells.at[startKey], POS_X)
       IN  /\ k \in OpenNeighbours(collapsedCells, startKey)
           /\ \E m \in OpenNeighbours(collapsedCells, k) :
                    m # startKey /\ endKey \in OpenNeighbours(collapsedCells, m)

\* C5: with startKey and endKey both keys of collapsedCells, findPath returns null
\* if and only if endKey cannot be reached from startKey by steps across
\* open-resolved faces.
C5_NullIffUnreachable ==
    (pc = "path" /\ startKey \in Keys(collapsedCells) /\ endKey \in Keys(collapsedCells)) =>
        ((path = NullPath) <=> (endKey \notin OpenClosure(collapsedCells, {startKey})))
\* null returned for two present cells, the start having an open face to a present cell
C5_Witness ==
    /\ pc = "path"
    /\ startKey \in Keys(collapsedCells)
    /\ endKey \in Keys(collapsedCells)
    /\ path = NullPath
    /\ OpenNeighbours(collapsedCells, startKey) # {}

\* C6: findPath returns null when startKey or endKey is not a key of collapsedCells
\* (also when they are equal), and the one-element path [startKey] when startKey
\* equals endKey and is present.
C6_AbsentAndTrivial ==
    pc = "path" =>
        /\ (startKey \notin Keys(collapsedCells) \/ endKey \notin Keys(collapsedCells))
                => path = NullPath
        /\ (startKey = endKey /\ startKey \in Keys(collapsedCells)) => path = <<startKey>>
\* a call with equal keys that are absent from a chunk that is not empty
C6_Witness ==
    /\ pc = "path"
    /\ startKey = endKey
    /\ startKey \notin Keys(collapsedCells)
    /\ Keys(collapsedCells) # {}
    /\ path = NullPath

\* a connected cell with an in-domain horizontal neighbour that is not connected
CarvableLeft ==
    \E k \in collapsed, f \in HFaceSet :
        LET pos == gridCells.at[k].position
            nx == pos[1] + FACE_DIRECTION(f)[1]
            nz == pos[3] + FACE_DIRECTION(f)[3]
        IN  inBounds(nx, nz) /\ posKey(nx, nz) \notin collapsed

\* C7: when the growth of generateCascade is over, fewer cells than the target
\* min(targetCells, gridX * gridZ) are connected only when no connected cell has an
\* in-domain horizontal neighbour that is still unconnected.
C7_FillReachesTarget ==
    (pc = "collapse" /\ Cardinality(collapsed) < TargetCount) => ~CarvableLeft

\* C8: for gridX >= 1 and gridZ >= 1, odd or even, generateCascade never connects
\* more than gridX * gridZ cells: collapsed, collapseOrder and collapsedCells have at
\* most gridX * gridZ entries.
C8_AtMostDomain ==
    /\ Cardinality(collapsed) <= gridX * gridZ
    /\ Len(collapseOrder) <= gridX * gridZ
    /\ MapSize(collapsedCells) <= gridX * gridZ
\* an even-sized grid returned with gridX * gridZ cells, fewer than the grid holds
C8_Witness ==
    /\ pc = "returned"
    /\ gridX % 2 = 0
    /\ MapSize(collapsedCells) = gridX * gridZ
    /\ MapSize(gridCells) > gridX * gridZ

\* C9 as claimed: once the origin is seeded, the number of connected cells is at
\* most the target min(targetCells, gridX * gridZ), for every targetCells.
C9_AtMostTarget ==
    pc \notin {"phase1", "seed"} => Cardinality(collapsed) <= TargetCount
\* C9 amended: at every point of generateCascade the number of connected cells is
\* at most the larger of 1 and the target: the origin is always connected, and no
\* further cell is connected once the target is reached.
C9_AtMostTargetOrOrigin ==
    Cardinality(collapsed) <= Max(1, TargetCount)
\* the fill pass has connected a cell and the target is reached
C9_Witness ==
    /\ pc = "fillFace"
    /\ Cardinality(collapsed) = TargetCount
    /\ TargetCount > 1

\* C10: two calls of generateCascade with the same gridX, gridZ and targetCells
\* return identical collapsedCells and identical collapseOrder.
C10_SameResult ==
    (run = 2 /\ pc = "returned") =>
        /\ collapsedCells = firstRun.collapsedCells
        /\ collapseOrder = firstRun.collapseOrder

\* C11: the neighbour repair pass is idempotent: run again on the chunk that
\* generateCascade returns (the pass has run on it once, whatever ids the two sides
\* of an edge drew), it changes no faceOptions entry of any cell.
C11_RepairIdempotent ==
    pc = "returned" => NeighborRepair(collapsedCells) = collapsedCells
\* a returned chunk in which the pass has overwritten a face: more faces carry an
\* id other than their first candidate than draws picked one
C11_Witness ==
    /\ pc = "returned"
    /\ OddDrawsSoFar > MaxOddDraws

Reverse(seq) == [i \in 1..Len(seq) |-> seq[Len(seq) + 1 - i]]

\* C12: for the chunk that Phase 3 has collapsed, the neighbour repair pass gives
\* the same resolved id on every face whether the cells and faces are visited in
\* the order of the code or in the reverse order.
C12_OrderIndependent ==
    (pc = "collapse" /\ loopIdx > Len(collapseOrder)) =>
        RepairAlong(collapsedCells, Reverse(RepairOrder(collapsedCells)))
            = NeighborRepair(collapsedCells)

\* the cells reachable from S by steps across open faces, the step between a and b
\* left out in both directions
RECURSIVE OpenClosureAvoiding(_, _, _, _)
OpenClosureAvoiding(cells, S, a, b) ==
    LET step(k) == IF k = a THEN OpenNeighbours(cells, k) \ {b}
                   ELSE IF k = b THEN OpenNeighbours(cells, k) \ {a}
                   ELSE OpenNeighbours(cells, k)
        T == S \cup UNION {step(k) : k \in S}
    IN  IF T = S THEN S ELSE OpenClosureAvoiding(cells, T, a, b)
\* two cells joined by an open edge are also joined by a route that avoids it
SecondRoute(cells) ==
    \E a \in Keys(cells) :
        \E b \in OpenNeighbours(cells, a) : b \in OpenClosureAvoiding(cells, {a}, a, b)
\* the four cells of some unit square are all in the chunk
HoldsUnitSquare(cells) ==
    \E k \in Keys(cells) :
        LET p == cells.at[k].position
        IN  {posKey(p[1] + 1, p[3]), posKey(p[1], p[3] + 1), posKey(p[1] + 1, p[3] + 1)}
                \subseteq Keys(cells)

\* C13 as claimed, read on the runs that could show it: a returned chunk that holds
\* the four cells of a unit square joins two cells by more than one route.
C13_SecondRoute ==
    (pc = "returned" /\ HoldsUnitSquare(collapsedCells)) => SecondRoute(collapsedCells)
\* C13 amended: no run of generateCascade returns a chunk with a cycle: no two
\* cells of the returned chunk are joined by more than one route over open faces.
C13_AlwaysTree ==
    pc = "returned" => ~SecondRoute(collapsedCells)
\* a returned chunk that holds the four cells of a unit square, one side of the
\* square being closed
C13_Witness ==
    /\ pc = "returned"
    /\ HoldsUnitSquare(collapsedCells)
    /\ \E k \in Keys(collapsedCells) :
            /\ Across(collapsedCells.at[k], POS_X) \in Keys(collapsedCells)
            /\ ~OpenFace(collapsedCells.at[k], POS_X)

\* what the cascade loop can still dequeue: the entries in the queue, and two more
\* for every cell of the grid that is not connected yet
DequeueMeasure == Len(queue) + 2 * (MapSize(gridCells) - Cardinality(collapsed))

\* C14: generateCascade terminates on every input and for every sequence of draws:
\* every run reaches its return, and every iteration of the cascade loop lowers a
\* measure that starts at no more than twice the number of grid cells plus two and
\* never falls below zero, which bounds the number of dequeue steps.
C14_Terminates ==
    /\ <>(pc = "returned")
    /\ [](pc = "cascade" => (DequeueMeasure >= 0
                                /\ DequeueMeasure <= 2 * MapSize(gridCells) + 2))
    /\ [][CascadeStep => DequeueMeasure' < DequeueMeasure]_vars
\* a run on the grid with unit squares has returned with as many cells as its target
C14_Witness ==
    /\ pc = "returned"
    /\ gridX = WideGridX /\ gridZ = WideGridZ
    /\ MapSize(collapsedCells) = WideTarget

\* bit f of the cell's faceStates mask
FaceBit(cell, f) == (cell.faceStates \div (2 ^ f)) % 2
CellsOf(m) == {m.at[k] : k \in Keys(m)}

\* C15: collapseCell never returns a cell that keeps an empty candidate list on a
\* participating face (faceStates bit 1). collapseCell has no failing outcome, so
\* every cell it has put into collapsedCells must have a non-empty list on every
\* participating face.
C15_NoSilentEmptyList ==
    \A cell \in CellsOf(collapsedCells), f \in FACES :
        FaceBit(cell, f) = 1 => Len(cell.faceOptions[f + 1]) > 0

C17_EmptyListBitZero ==
    \A cell \in {createCell(0, 0, 0), createGridCell(0, 0)}
                    \cup CellsOf(gridCells) \cup CellsOf(collapsedCells) :
        \A f \in FACES :
            Len(cell.faceOptions[f + 1]) = 0 => FaceBit(cell, f) = 0

\* the position (x, z) lies in the domain of the grid
InDomain(x, z) ==
    /\ x >= 0 - (gridX \div 2) /\ x <= gridX \div 2
    /\ z >= 0 - (gridZ \div 2) /\ z <= gridZ \div 2
OpenList == <<0, 1, 2>>
\* the edge across face f of cell k is carved: open-only on both sides
CarvedEdge(k, f) ==
    /\ Across(gridCells.at[k], f) \in Keys(gridCells)
    /\ gridCells.at[k].faceOptions[f + 1] = OpenList
    /\ gridCells.at[Across(gridCells.at[k], f)].faceOptions[OPPOSITE_FACE(f) + 1] = OpenList

\* C18: collapseOrder lists the keys in the order the cells became connected: its
\* first entry is the origin "0,0" with fromFace -1, no key is listed twice, the keys
\* are the connected set, and for every later entry the cell across the entry's
\* fromFace is in the domain, is listed earlier and shares a carved edge with it.
C18_OrderOfConnection ==
    pc \notin {"phase1", "seed"} =>
        /\ collapseOrder[1] = [key |-> "0,0", fromFace |-> 0 - 1]
        /\ NoDuplicates([i \in 1..Len(collapseOrder) |-> collapseOrder[i].key])
        /\ {collapseOrder[i].key : i \in 1..Len(collapseOrder)} = collapsed
        /\ \A i \in 2..Len(collapseOrder) :
                LET e == collapseOrder[i]
                    cell == gridCells.at[e.key]
                IN  /\ e.fromFace \in HFaceSet
                    /\ InDomain(cell.position[1] + FACE_DIRECTION(e.fromFace)[1],
                                cell.position[3] + FACE_DIRECTION(e.fromFace)[3])
                    /\ \E j \in 1..(i - 1) :
                            collapseOrder[j].key = Across(cell, e.fromFace)
                    /\ CarvedEdge(e.key, e.fromFace)
\* the fill pass has connected a cell from a cell other than the origin
C18_Witness ==
    /\ pc = "fillFace"
    /\ Len(collapseOrder) > 1
    /\ LET e == collapseOrder[Len(collapseOrder)]
       IN  /\ Across(gridCells.at[e.key], e.fromFace) = FillKey
           /\ FillKey # "0,0"

\* C19: a call of findPath leaves collapsedCells as it was: no key is added or
\* removed and every cell keeps its position and its faceOptions.
C19_InputUnchanged ==
    [][pc' = "path" =>
            /\ Keys(collapsedCells') = Keys(collapsedCells)
            /\ collapsedCells'.ord = collapsedCells.ord
            /\ \A k \in Keys(collapsedCells) :
                    /\ collapsedCells'.at[k].position = collapsedCells.at[k].position
                    /\ collapsedCells'.at[k].faceOptions = collapsedCells.at[k].faceOptions
      ]_vars
\* a call has returned a path of three keys
C19_Witness == pc = "path" /\ Len(path) = 3 /\ startKey # endKey

\* the connected cells one carved edge away from connected cell k
CarvedNeighbours(k) ==
    {Across(gridCells.at[k], f) : f \in {g \in HFaceSet : CarvedEdge(k, g)}} \cap collapsed
RECURSIVE CarvedClosure(_)
CarvedClosure(S) ==
    LET T == S \cup UNION {CarvedNeighbours(k) : k \in S}
    IN  IF T = S THEN S ELSE CarvedClosure(T)

\* C20: in every state of the cascade loop and of the fill pass, every cell of the
\* connected set is joined to the origin by a chain of carved edges between
\* connected cells.
C20_ConnectedWhileGrowing ==
    pc \in {"cascade", "fill", "fillFace", "collapse"} =>
        collapsed \subseteq CarvedClosure({"0,0"})
\* in the middle of the fill pass, on a grid with unit squares, a connected cell is
\* more than one carved edge from the origin
C20_Witness ==
    /\ pc = "fillFace"
    /\ gridX > 1 /\ gridZ > 1
    /\ \E k \in collapsed : k # "0,0" /\ k \notin CarvedNeighbours("0,0")

WallList == <<10, 11, 12, 13>>
\* the (key, face) pairs whose candidate list differs between the grids a and b
ChangedFaces(a, b) ==
    {kf \in Keys(a) \X FACES : a.at[kf[1]].faceOptions[kf[2] + 1]
                                    # b.at[kf[1]].faceOptions[kf[2] + 1]}
\* the adjacency record holds the edge across face f of grid cell k
RecordedEdge(k, f) ==
    /\ k \in DOMAIN connections
    /\ Across(gridCells.at[k], f) \in connections[k]

\* C21: each connect step of generateCascade (in the cascade loop or in the fill
\* pass) changes the candidate lists of exactly two faces, the source cell's face
\* toward the new cell and the new cell's opposite face, and sets both to the
\* open-only list; when generateCascade returns, every horizontal face in gridCells
\* is open-only if the adjacency record holds its edge and the wall-only default
\* otherwise, and every vertical face is empty.
C21_TwoFacesPerConnect ==
    /\ [][(pc \in {"cascade", "fillFace"} /\ collapsed' # collapsed) =>
            LET e == collapseOrder'[Len(collapseOrder')]
                src == Across(gridCells.at[e.key], e.fromFace)
            IN  /\ collapsed' = collapsed \cup {e.key}
                /\ ChangedFaces(gridCells, gridCells')
                        = {<<src, OPPOSITE_FACE(e.fromFace)>>, <<e.key, e.fromFace>>}
                /\ gridCells'.at[src].faceOptions[OPPOSITE_FACE(e.fromFace) + 1] = OpenList
                /\ gridCells'.at[e.key].faceOptions[e.fromFace + 1] = OpenList
                /\ Keys(gridCells') = Keys(gridCells)
         ]_vars
    /\ [][collapsed' = collapsed => gridCells' = gridCells \/ pc = "phase1"]_vars
    /\ [](pc = "returned" =>
            \A k \in Keys(gridCells) :
                /\ \A f \in HFaceSet :
                        gridCells.at[k].faceOptions[f + 1]
                            = IF RecordedEdge(k, f) THEN OpenList ELSE WallList
                /\ \A f \in FACES \ HFaceSet : gridCells.at[k].faceOptions[f + 1] = <<>>)
\* a returned run whose grid holds a cell with a carved face and a wall-default face
\* and a cell that was never connected
C21_Witness ==
    /\ pc = "returned"
    /\ \E k \in Keys(gridCells) : k \notin collapsed
    /\ \E k \in collapsed, f, g \in HFaceSet :
            /\ gridCells.at[k].faceOptions[f + 1] = OpenList
            /\ gridCells.at[k].faceOptions[g + 1] = WallList

\* the key of the neighbour named by the entry at the head of the frontier queue
HeadNeighbour == ToString(Head(queue).nx) \o "," \o ToString(Head(queue).nz)
\* the carved edges of the grid, each as the set of its two keys
CarvedEdges ==
    {{kf[1], Across(gridCells.at[kf[1]], kf[2])} :
        kf \in {kg \in Keys(gridCells) \X HFaceSet : CarvedEdge(kg[1], kg[2])}}

\* C22: dequeuing a frontier candidate whose neighbour is already connected is a
\* pure discard: the step changes no candidate list and leaves the connected set,
\* collapseOrder and the adjacency record as they were; so no edge is ever carved
\* between two cells that were both connected already, and the carved edges number
\* one fewer than the connected cells.
C22_PureDiscard ==
    /\ [][(pc = "cascade" /\ queue # <<>> /\ HeadNeighbour \in collapsed) =>
            /\ gridCells' = gridCells
            /\ collapsed' = collapsed
            /\ collapseOrder' = collapseOrder
            /\ connections' = connections
         ]_vars
    /\ [](pc \in {"cascade", "fill", "fillFace", "collapse", "returned"} =>
            /\ Cardinality(CarvedEdges) = Cardinality(collapsed) - 1
            /\ \A k \in DOMAIN connections :
                    \A m \in connections[k] : {k, m} \in CarvedEdges)
\* the cascade loop is at a candidate whose neighbour was connected from another
\* cell, and goes on: the candidate is the next to be dequeued
C22_Witness ==
    /\ pc = "cascade"
    /\ queue # <<>>
    /\ HeadNeighbour \in collapsed
    /\ Cardinality(collapsed) < TargetCount
    /\ \E i \in 1..Len(collapseOrder) :
            /\ collapseOrder[i].key = HeadNeighbour
            /\ Across(gridCells.at[HeadNeighbour], collapseOrder[i].fromFace)
                    # ToString(Head(queue).x) \o "," \o ToString(Head(queue).z)

WallIdSet == {10, 11, 12, 13}
\* the chunk after the first n visits of the neighbour repair pass
RepairedUpTo(n) == RepairAlong(collapsedCells, SubSeq(RepairOrder(collapsedCells), 1, n))

\* C23: in the neighbour repair pass a face resolved to a wall id is never
\* overwritten: every visit that changes a face replaces an open id by an open id,
\* so the pass leaves every face open if it was open and wall if it was wall.
C23_WallNeverOverwritten ==
    (pc = "collapse" /\ loopIdx > Len(collapseOrder)) =>
        /\ \A n \in 1..(4 * MapSize(collapsedCells)) :
                \A kf \in ChangedFaces(RepairedUpTo(n - 1), RepairedUpTo(n)) :
                    /\ OpenFace(RepairedUpTo(n - 1).at[kf[1]], kf[2])
                    /\ OpenFace(RepairedUpTo(n).at[kf[1]], kf[2])
        /\ \A k \in Keys(collapsedCells), f \in HFaceSet :
                /\ OpenFace(NeighborRepair(collapsedCells).at[k], f)
                        <=> OpenFace(collapsedCells.at[k], f)
                /\ collapsedCells.at[k].faceOptions[f + 1][1] \in WallIdSet =>
                        NeighborRepair(collapsedCells).at[k].faceOptions[f + 1]
                            = collapsedCells.at[k].faceOptions[f + 1]
\* the pass is about to run on a chunk in which two cells share an uncarved face
\* and drew different wall ids for it
C23_Witness ==
    /\ pc = "collapse"
    /\ loopIdx > Len(collapseOrder)
    /\ \E k \in Keys(collapsedCells), f \in HFaceSet :
            /\ Across(collapsedCells.at[k], f) \in Keys(collapsedCells)
            /\ collapsedCells.at[k].faceOptions[f + 1][1] \in WallIdSet
            /\ collapsedCells.at[Across(collapsedCells.at[k], f)].faceOptions[OPPOSITE_FACE(f) + 1]
                    # collapsedCells.at[k].faceOptions[f + 1]

\* the face of cell a that looks at the adjacent cell b; none: 0 - 1
FaceToward(cells, a, b) ==
    IF \E f \in HFaceSet : Across(cells.at[a], f) = b
    THEN CHOOSE f \in HFaceSet : Across(cells.at[a], f) = b
    ELSE 0 - 1

\* C24: for every hand-built resolved chunk and every two adjacent cells A and B of
\* it, findPath steps from A to B (returns the two-key path [A, B]) if and only if
\* A's face toward B or B's face toward A is resolved to an open id; and findPath
\* finds a path from A to B exactly when it finds one from B to A.
C24_EitherSideOpens ==
    (/\ pc = "path"
     /\ startKey \in Keys(collapsedCells)
     /\ endKey \in Keys(collapsedCells)
     /\ FaceToward(collapsedCells, startKey, endKey) \in HFaceSet) =>
        /\ (path = <<startKey, endKey>>) <=>
                \/ OpenFace(collapsedCells.at[startKey],
                            FaceToward(collapsedCells, startKey, endKey))
                \/ OpenFace(collapsedCells.at[endKey],
                            FaceToward(collapsedCells, endKey, startKey))
        /\ (path # NullPath) <=> (findPath(collapsedCells, endKey, startKey) # NullPath)

\* the place of a face in the order +X, -X, +Z, -Z
FaceRank(f) == CASE f = 0 -> 1 [] f = 1 -> 2 [] f = 4 -> 3 [] f = 5 -> 4
\* face sequence a comes before face sequence b of the same length
RECURSIVE FacesBefore(_, _)
FacesBefore(a, b) ==
    IF a = <<>> THEN FALSE
    ELSE IF Head(a) # Head(b) THEN FaceRank(Head(a)) < FaceRank(Head(b))
    ELSE FacesBefore(Tail(a), Tail(b))
\* the keys visited from key k along the faces fs, each step across an open face
\* into a cell of the chunk; <<>> when a step is not possible
RECURSIVE Walk(_, _, _)
Walk(cells, k, fs) ==
    IF fs = <<>> THEN <<k>>
    ELSE LET n == Across(cells.at[k], Head(fs))
         IN  IF OpenFace(cells.at[k], Head(fs)) /\ n \in Keys(cells)
             THEN LET rest == Walk(cells, n, Tail(fs))
                  IN  IF rest = <<>> THEN <<>> ELSE <<k>> \o rest
             ELSE <<>>
\* the face sequences of length n that lead from s to e
Routes(cells, s, e, n) ==
    {fs \in [1..n -> HFaceSet] :
        Walk(cells, s, fs) # <<>> /\ Walk(cells, s, fs)[n + 1] = e}

\* C25: findPath returns, among the shortest paths from startKey to endKey, the one
\* whose sequence of faces is least in lexicographic order under the face order
\* +X, -X, +Z, -Z.
C25_LeastFaceSequence ==
    (pc = "path" /\ path # NullPath /\ Len(path) > 1) =>
        \E fs \in Routes(collapsedCells, startKey, endKey, Len(path) - 1) :
            /\ Walk(collapsedCells, startKey, fs) = path
            /\ \A gs \in Routes(collapsedCells, startKey, endKey, Len(path) - 1) :
                    gs = fs \/ FacesBefore(fs, gs)
            /\ \A n \in 1..(Len(path) - 2) : Routes(collapsedCells, startKey, endKey, n) = {}
\* the path returned goes first across +X; a second path of the same length goes
\* first across +Z
C25_Witness ==
    /\ pc = "path"
    /\ Len(path) = 3
    /\ path[2] = Across(collapsedCells.at[startKey], POS_X)
    /\ \E gs \in Routes(collapsedCells, startKey, endKey, 2) : gs[1] = POS_Z

\* the key "x,z" of the cell's own position
OwnKey(cell) == ToString(cell.position[1]) \o "," \o ToString(cell.position[3])

\* C26: in the result of generateCascade collapseOrder holds no key twice, its keys
\* are the keys of collapsedCells and the connected set, so collapseOrder.length is
\* the number of resolved cells (the count startCascade displays, no entry being
\* skipped for a missing cell), and every resolved cell is stored under the key
\* "x,z" of its own position.
C26_OrderMatchesCells ==
    pc = "returned" =>
        /\ NoDuplicates([i \in 1..Len(collapseOrder) |-> collapseOrder[i].key])
        /\ {collapseOrder[i].key : i \in 1..Len(collapseOrder)} = Keys(collapsedCells)
        /\ Keys(collapsedCells) = collapsed
        /\ Len(collapseOrder) = Cardinality(Keys(collapsedCells))
        /\ Len(collapsedCells.ord) = Cardinality(Keys(collapsedCells))
        /\ \A k \in Keys(collapsedCells) : OwnKey(collapsedCells.at[k]) = k
\* a returned chunk of as many cells as any target allows, not all in one row
C26_Witness ==
    /\ pc = "returned"
    /\ Len(collapseOrder) = MaxTarget
    /\ \E k \in Keys(collapsedCells) : collapsedCells.at[k].position[3] # 0

\* C27: for every gridX >= 1 and gridZ >= 1, odd or even, once Phase 1 has run
\* gridCells has exactly gridX * gridZ entries, one for each position of the domain
\* and stored under its key, and before the growth starts each is in the
\* wall-default state.
C27_ExactRectangle ==
    pc # "phase1" =>
        /\ MapSize(gridCells) = gridX * gridZ
        /\ \A k \in Keys(gridCells) :
                /\ OwnKey(gridCells.at[k]) = k
                /\ InDomain(gridCells.at[k].position[1], gridCells.at[k].position[3])
        /\ pc = "seed" =>
                \A k \in Keys(gridCells) :
                    gridCells.at[k].faceOptions
                        = <<WallList, WallList, <<>>, <<>>, WallList, WallList>>

\* the ids of a face list
IdsOf(opts) == {opts[i] : i \in 1..Len(opts)}
\* the cell collapseCell has returned last
LastCollapsed == collapsedCells.at[collapsedCells.ord[MapSize(collapsedCells)]]

\* C28: collapseCell returns a new cell in which every non-empty face list of the
\* input is replaced by a one-element list holding a member of that list and every
\* empty list stays empty; the input cell keeps its faceOptions, so the cells of
\* gridCells hold their candidate lists throughout Phase 3 and after the return.
C28_CollapseKeepsInput ==
    /\ [][(pc = "collapse" /\ loopIdx' = loopIdx + 1) =>
            LET key == collapseOrder[loopIdx].key
                in == gridCells.at[key]
                out == collapsedCells'.at[key]
            IN  /\ \A f \in FACES :
                        IF in.faceOptions[f + 1] = <<>>
                        THEN out.faceOptions[f + 1] = <<>>
                        ELSE /\ Len(out.faceOptions[f + 1]) = 1
                             /\ out.faceOptions[f + 1][1] \in IdsOf(in.faceOptions[f + 1])
                /\ out.position = in.position
                /\ out.size = in.size
                /\ out.faceStates = in.faceStates
                /\ gridCells' = gridCells
         ]_vars
    /\ [](pc \in {"collapse", "returned"} =>
            \A k \in Keys(gridCells), f \in FACES :
                gridCells.at[k].faceOptions[f + 1]
                    = IF f \notin HFaceSet THEN <<>>
                      ELSE IF RecordedEdge(k, f) THEN OpenList ELSE WallList)
\* a returned run in which collapseCell drew, for one cell, an open id and a wall id
\* that are not the first of their lists
C28_Witness ==
    /\ pc = "returned"
    /\ \E k \in Keys(collapsedCells), f, g \in HFaceSet :
            /\ collapsedCells.at[k].faceOptions[f + 1][1] \in {1, 2}
            /\ collapsedCells.at[k].faceOptions[g + 1][1] \in {11, 12, 13}
            /\ gridCells.at[k].faceOptions[f + 1] = OpenList
            /\ gridCells.at[k].faceOptions[g + 1] = WallList

\* the face through which the connected cell k was entered; the origin: 0 - 1
EnteredThrough(k) ==
    LET i == CHOOSE j \in 1..Len(collapseOrder) : collapseOrder[j].key = k
    IN  collapseOrder[i].fromFace

\* C29: at every moment every entry (x, z, face, nx, nz) of the frontier queue has a
\* connected source cell (x, z), a horizontal face, a neighbour (nx, nz) that is the
\* source position plus the direction of face and lies inside the domain; and no
\* entry leaves its source through the face the source was entered through.
C29_FrontierEntries ==
    \A i \in 1..Len(queue) :
        LET e == queue[i]
            src == ToString(e.x) \o "," \o ToString(e.z)
        IN  /\ src \in collapsed
            /\ e.face \in HFaceSet
            /\ e.nx = e.x + FACE_DIRECTION(e.face)[1]
            /\ e.nz = e.z + FACE_DIRECTION(e.face)[3]
            /\ InDomain(e.nx, e.nz)
            /\ e.face # EnteredThrough(src)
\* the queue holds an entry whose source is on the rim of the grid and not the origin
C29_Witness ==
    /\ pc = "cascade"
    /\ \E i \in 1..Len(queue) :
            /\ <<queue[i].x, queue[i].z>> # <<0, 0>>
            /\ \E f \in HFaceSet :
                    ~InDomain(queue[i].x + FACE_DIRECTION(f)[1],
                              queue[i].z + FACE_DIRECTION(f)[3])

\* C30: in the result of generateCascade no open face leads outside the resolved
\* set: across every face of a cell of collapsedCells that is resolved to an open id
\* lies a position of the domain whose cell is in collapsedCells; and a grid cell
\* that was never connected keeps the wall-only list on its four horizontal faces.
C30_NoOpenFaceOutward ==
    pc = "returned" =>
        /\ \A k \in Keys(collapsedCells), f \in FACES :
                (/\ Len(collapsedCells.at[k].faceOptions[f + 1]) = 1
                 /\ collapsedCells.at[k].faceOptions[f + 1][1] \in OpenIdSet) =>
                    /\ InDomain(collapsedCells.at[k].position[1] + FACE_DIRECTION(f)[1],
                                collapsedCells.at[k].position[3] + FACE_DIRECTION(f)[3])
                    /\ FACE_DIRECTION(f)[2] = 0
                    /\ Across(collapsedCells.at[k], f) \in Keys(collapsedCells)
        /\ \A k \in Keys(gridCells) \ Keys(collapsedCells) :
                \A f \in HFaceSet : gridCells.at[k].faceOptions[f + 1] = WallList
\* a returned chunk with a resolved cell next to a grid cell that was never
\* connected, and another resolved cell on the rim of the domain
C30_Witness ==
    /\ pc = "returned"
    /\ \E k \in Keys(collapsedCells), f \in HFaceSet :
            Across(collapsedCells.at[k], f) \in Keys(gridCells) \ Keys(collapsedCells)
    /\ \E k \in Keys(collapsedCells), f \in HFaceSet :
            /\ Across(collapsedCells.at[k], f) \notin Keys(gridCells)
            /\ \E g \in HFaceSet : OpenFace(collapsedCells.at[k], g)

\* C37: the adjacency record of generateCascade is symmetric (b is recorded for a
\* if and only if a is recorded for b), records no cell as adjacent to itself, and
\* holds a pair exactly when the two cells are adjacent in the grid and the edge
\* between them is carved; a pair is held once, the record of a cell being a set.
C37_AdjacencyRecord ==
    pc \notin {"phase1", "seed"} =>
        /\ DOMAIN connections \subseteq collapsed
        /\ \A a \in DOMAIN connections :
                \A b \in connections[a] :
                    /\ b \in DOMAIN connections
                    /\ a \in connections[b]
                    /\ a # b
                    /\ \E f \in HFaceSet : Across(gridCells.at[a], f) = b /\ CarvedEdge(a, f)
        /\ \A a \in Keys(gridCells), f \in HFaceSet :
                CarvedEdge(a, f) =>
                    /\ a \in DOMAIN connections
                    /\ Across(gridCells.at[a], f) \in connections[a]
\* the record of a cell other than the origin holds three cells
C37_Witness ==
    \E a \in DOMAIN connections : a # "0,0" /\ Cardinality(connections[a]) = 3

\* the sum and the negation of two direction vectors
VecAdd(u, v) == <<u[1] + v[1], u[2] + v[2], u[3] + v[3]>>
VecNeg(u) == <<0 - u[1], 0 - u[2], 0 - u[3]>>

\* C38: OPPOSITE_FACE is an involution without fixed points on the six faces, and
\* FACE_DIRECTION of the opposite face is the negation of FACE_DIRECTION of the
\* face: from the position of every grid cell, the step across a face followed by
\* the step across the opposite face ends at the position it started from.
C38_OppositeInvolution ==
    /\ \A f \in FACES :
            /\ OPPOSITE_FACE(f) \in FACES
            /\ OPPOSITE_FACE(OPPOSITE_FACE(f)) = f
            /\ OPPOSITE_FACE(f) # f
            /\ FACE_DIRECTION(OPPOSITE_FACE(f)) = VecNeg(FACE_DIRECTION(f))
    /\ \A k \in Keys(gridCells), f \in FACES :
            VecAdd(VecAdd(gridCells.at[k].position, FACE_DIRECTION(f)),
                   FACE_DIRECTION(OPPOSITE_FACE(f))) = gridCells.at[k].position
\* a cell was entered through its face -Z, the face opposite to the face +Z that
\* its source was left through
C38_Witness ==
    \E i \in 1..Len(collapseOrder) :
        /\ collapseOrder[i].fromFace = NEG_Z
        /\ gridCells.at[collapseOrder[i].key].position[3] = 1

\* ---- the page
UiStates == {"PARTICLE", "GRID_APPEAR", "CASCADING", "SPACE", "COLLAPSING"}

UiCycle ==
    {<<"PARTICLE", "GRID_APPEAR">>, <<"GRID_APPEAR", "CASCADING">>,
     <<"CASCADING", "SPACE">>, <<"SPACE", "COLLAPSING">>,
     <<"COLLAPSING", "PARTICLE">>}

\* the step is the start of onAction's double-click branch: a timer callback and
\* a frame name themselves in handler, a step of the clock raises sinceClick
DoubleClicked == handler' = "click" /\ lastInput' = "double" /\ sinceClick' = 0

\* C31: whatever the order of clicks, timer callbacks and frames, the UI state
\* changes only from PARTICLE to GRID_APPEAR, from GRID_APPEAR to CASCADING, from
\* CASCADING to SPACE, from SPACE to COLLAPSING and from COLLAPSING to PARTICLE,
\* and a double click handled in GRID_APPEAR, CASCADING or COLLAPSING leaves the
\* state as it is.
C31_OnlyAlongCycle ==
    [][/\ currentState \in UiStates
       /\ currentState' # currentState => <<currentState, currentState'>> \in UiCycle
       /\ (DoubleClicked /\ currentState \in {"GRID_APPEAR", "CASCADING", "COLLAPSING"})
              => currentState' = currentState]_vars
\* a double click was handled while the collapse-back animation was running
C31_Witness ==
    /\ currentState = "COLLAPSING"
    /\ handler = "click" /\ lastInput = "double" /\ sinceClick = 0
    /\ activeAnimation # <<>>
    /\ activeAnimation[1].elapsed > 0

\* C32: whenever no handler is running, cascadeData is null exactly in PARTICLE
\* and so non-null in GRID_APPEAR, CASCADING, SPACE and COLLAPSING; a step calls
\* generateCascade exactly when it takes the state from PARTICLE to GRID_APPEAR;
\* cascadeData becomes non-null only as what that call returned, is never
\* replaced or changed while non-null, and becomes null only as the state goes
\* from COLLAPSING back to PARTICLE.
C32_OneChunkPerExpansion ==
    /\ [](pc = "idle" => (cascadeData = <<>> <=> currentState = "PARTICLE"))
    /\ [][/\ (currentState = "PARTICLE" /\ currentState' = "GRID_APPEAR")
                <=> (pc # "phase1" /\ pc' = "phase1")
          /\ (cascadeData # <<>> /\ cascadeData' # <<>>) => cascadeData' = cascadeData
          /\ (cascadeData = <<>> /\ cascadeData' # <<>>)
                => /\ pc = "returned"
                   /\ currentState = "GRID_APPEAR"
                   /\ cascadeData'[1].collapsedCells = collapsedCells
                   /\ cascadeData'[1].collapseOrder = collapseOrder
                   /\ cascadeData'[1].gridCells = gridCells
          /\ (cascadeData # <<>> /\ cascadeData' = <<>>)
                => currentState = "COLLAPSING" /\ currentState' = "PARTICLE"]_vars
\* a chunk of three cells is held while a path is drawn in SPACE
C32_Witness ==
    /\ currentState = "SPACE"
    /\ cascadeData # <<>>
    /\ Len(cascadeData[1].collapseOrder) = 3
    /\ pathGroup # <<>>

\* the step is the timer callback calling handleNavigation
Navigated == clickTimer # <<>> /\ clickTimer' = <<>> /\ lastInput' = "navigation"

\* C33: handleNavigation, and with it findPath on cascadeData.collapsedCells, is
\* called only in a state where the UI state is SPACE and cascadeData is not
\* null, in whatever state the click set the timer and whatever happened before
\* the callback ran; a callback that runs in another state calls nothing.
C33_NavigationOnlyInSpace ==
    [][/\ Navigated => (currentState = "SPACE" /\ cascadeData # <<>>)
       /\ (clickTimer # <<>> /\ handler' = "timer" /\ currentState # "SPACE")
              => (lastInput' = "expired" /\ pathGroup' = pathGroup)]_vars
\* the callback has found and drawn a path of three cells
C33_Witness ==
    /\ currentState = "SPACE"
    /\ handler = "timer" /\ lastInput = "navigation"
    /\ pathGroup # <<>>
    /\ Len(pathGroup[1]) = 3

\* C34: when a click is handled as a double click, that is less than 300 ms after
\* the click before it, the timer set by that earlier click has not run its
\* callback: the latest input before the double click is not a timer callback,
\* and in particular no pair of clicks has both its timer callback call
\* handleNavigation and its second click start the expansion or the collapse.
C34_PairHandledOnce ==
    [][/\ DoubleClicked => lastInput \notin {"navigation", "expired"}
       /\ (DoubleClicked /\ currentState' # currentState) => lastInput # "navigation"]_vars

\* C35: an animation object whose update is called again and again with a
\* positive dt returns true from some call on and at every call after it; on the
\* page, GRID_APPEAR (entered by a double click in PARTICLE) leads to SPACE and
\* COLLAPSING (entered by a double click in SPACE) leads to PARTICLE, for every
\* chunk the sliders allow, the chunk of the single cell 0,0 included.
C35_AnimationsFinish ==
    /\ <>[](pc = "anim" => updated)
    /\ (currentState = "GRID_APPEAR") ~> (currentState = "SPACE")
    /\ (currentState = "COLLAPSING") ~> (currentState = "PARTICLE")
\* the expansion of the chunk of a single cell has reached SPACE: the grid-appear
\* animation had no ghost and the cascade animation one item
C35_Witness ==
    /\ currentState = "SPACE"
    /\ cascadeData # <<>>
    /\ Len(cascadeData[1].collapseOrder) = 1
    /\ MapSize(ghostMap[1]) = 0
    /\ handler = "frame"
    /\ updated

\* ---- the renderers
\* the id a resolved cell holds on a face
SideId(k, f) == collapsedCells.at[k].faceOptions[f + 1][1]
\* every option but the empty passage 0 is drawn as a wall, an arch or a door
HasGeometry(id) == id # 0
\* pairs <<a, f>> of a resolved cell a whose neighbour across +X or +Z is resolved
SharedFaces ==
    {p \in Keys(collapsedCells) \X {POS_X, POS_Z} :
        Across(collapsedCells.at[p[1]], p[2]) \in Keys(collapsedCells)}
\* the walls that renderResolvedCell put into the group of cell k on face f
GroupEmits(k, f) ==
    LET pos == collapsedCells.at[k].position
    IN  {<<i, j>> \in (1..Len(resolvedGroups)) \X (1..4) :
            /\ resolvedGroups[i].gridPos = <<pos[1], pos[3]>>
            /\ j <= Len(resolvedGroups[i].walls)
            /\ resolvedGroups[i].walls[j].face = f}
\* the walls that renderChunk added for cell k on face f
ChunkEmits(k, f) ==
    {i \in 1..Len(chunkWalls) :
        /\ chunkWalls[i].gridPosition = collapsedCells.at[k].position
        /\ chunkWalls[i].face = f}

\* C36: for every two adjacent resolved cells, the renderer (renderResolvedCell
\* called for every cell, and renderChunk of part_000) adds at most one wall for
\* their shared face, counting both cells, and exactly one when the id either
\* cell holds on that face is one that has geometry.
C36_SharedFaceOnce ==
    \A p \in SharedFaces :
        LET a == p[1]
            f == p[2]
            b == Across(collapsedCells.at[a], f)
            g == OPPOSITE_FACE(f)
            drawn == HasGeometry(SideId(a, f)) \/ HasGeometry(SideId(b, g))
        IN  /\ pc = "resolved" =>
                LET n == Cardinality(GroupEmits(a, f)) + Cardinality(GroupEmits(b, g))
                IN  n <= 1 /\ (drawn => n = 1)
            /\ pc = "chunk" =>
                LET n == Cardinality(ChunkEmits(a, f)) + Cardinality(ChunkEmits(b, g))
                IN  n <= 1 /\ (drawn => n = 1)
\* the cells were rendered one by one, and two adjacent cells hold different
\* wall ids on their shared face
C36_Witness ==
    /\ pc = "resolved"
    /\ \E p \in SharedFaces :
            LET b == Across(collapsedCells.at[p[1]], p[2])
            IN  /\ SideId(p[1], p[2]) \in WallIdSet
                /\ SideId(b, OPPOSITE_FACE(p[2])) \in WallIdSet
                /\ SideId(p[1], p[2]) # SideId(b, OPPOSITE_FACE(p[2]))
====
